---- MODULE Spec2Model ----
(***************************************************************************)
(* Response filtering of mcp-redmine: the orchestrator                     *)
(* apply_response_filter, the recursive engine filter_data / filter_dict / *)
(* filter_list, validate_filter_config and the journal filter with its     *)
(* pattern classifier (response_filters.py, journal_filters.py).           *)
(*                                                                         *)
(* Python values are tagged records.  A mapping keeps its items in         *)
(* insertion order as a sequence of <<key, value>> pairs.  Every list and  *)
(* mapping carries its object identity in the field o, so that two         *)
(* references to one object, and a write through either, can be told from  *)
(* two equal objects; Val forgets the identities and is Python's ==.       *)
(* A raised exception is the value Raise(type), handed up by every         *)
(* operator that does not catch it.                                        *)
(***************************************************************************)
EXTENDS Integers, Sequences, FiniteSets, TLC

\* ------------------------------------------------------------- values

PyNone == [k |-> "null"]
PyBool(b) == [k |-> "bool", b |-> b]
PyInt(n) == [k |-> "int", n |-> n]
PyStr(s) == [k |-> "str", s |-> s]
PyList(o, e) == [k |-> "list", o |-> o, e |-> e]
PyDict(o, m) == [k |-> "dict", o |-> o, m |-> m]
Raise(x) == [k |-> "raise", x |-> x]

IsNull(v) == v.k = "null"
IsBool(v) == v.k = "bool"
IsStr(v) == v.k = "str"
IsList(v) == v.k = "list"
IsDict(v) == v.k = "dict"
IsRaise(v) == v.k = "raise"
\* isinstance(v, int): bool is a subclass of int
IsInt(v) == v.k \in {"int", "bool"}
IntOf(v) == IF v.k = "bool" THEN (IF v.b THEN 1 ELSE 0) ELSE v.n

\* literals of the inputs: containers written without an identity yet
L(e) == PyList(<<>>, e)
D(m) == PyDict(<<>>, m)

RECURSIVE HasKeyFrom(_, _, _)
HasKeyFrom(m, key, i) ==
    IF i > Len(m) THEN FALSE
    ELSE IF m[i][1] = key THEN TRUE
    ELSE HasKeyFrom(m, key, i + 1)

\* key in d
HasKey(d, key) == HasKeyFrom(d.m, key, 1)

RECURSIVE GetFrom(_, _, _, _)
GetFrom(m, key, default, i) ==
    IF i > Len(m) THEN default
    ELSE IF m[i][1] = key THEN m[i][2]
    ELSE GetFrom(m, key, default, i + 1)

\* d.get(key, default)
Get(d, key, default) == GetFrom(d.m, key, default, 1)

RECURSIVE SetFrom(_, _, _, _)
SetFrom(m, key, value, i) ==
    IF i > Len(m) THEN Append(m, <<key, value>>)
    ELSE IF m[i][1] = key THEN SubSeq(m, 1, i - 1) \o <<<<key, value>>>> \o SubSeq(m, i + 1, Len(m))
    ELSE SetFrom(m, key, value, i + 1)

\* d[key] = value, on the object d
SetItem(d, key, value) == PyDict(d.o, SetFrom(d.m, key, value, 1))

RECURSIVE PopFrom(_, _, _)
PopFrom(m, key, i) ==
    IF i > Len(m) THEN m
    ELSE IF m[i][1] = key THEN SubSeq(m, 1, i - 1) \o SubSeq(m, i + 1, Len(m))
    ELSE PopFrom(m, key, i + 1)

\* d.pop(key, None), on the object d
Pop(d, key) == PyDict(d.o, PopFrom(d.m, key, 1))

\* bool(v)
Truthy(v) ==
    CASE v.k = "null" -> FALSE
      [] v.k = "bool" -> v.b
      [] v.k = "int" -> v.n # 0
      [] v.k = "str" -> v.s # ""
      [] v.k = "list" -> Len(v.e) > 0
      [] v.k = "dict" -> Len(v.m) > 0
      [] OTHER -> TRUE

RECURSIVE Val(_)
\* the value of v, identities forgotten: Val(a) = Val(b) is Python's a == b
Val(v) ==
    CASE v.k = "list" -> PyList(<<>>, [i \in 1..Len(v.e) |-> Val(v.e[i])])
      [] v.k = "dict" ->
           PyDict(<<>>, [i \in 1..Len(v.m) |-> <<v.m[i][1], Val(v.m[i][2])>>])
      [] OTHER -> v

RECURSIVE Alloc(_, _)
\* the tree v built of objects of its own, the one at path p named id \o p
Alloc(v, id) ==
    CASE v.k = "list" ->
           PyList(id, [i \in 1..Len(v.e) |-> Alloc(v.e[i], id \o <<ToString(i)>>)])
      [] v.k = "dict" ->
           PyDict(id, [i \in 1..Len(v.m) |->
                       <<v.m[i][1], Alloc(v.m[i][2], id \o <<v.m[i][1]>>)>>])
      [] OTHER -> v

\* ------------------------------------------------------------ strings

\* s[i-1:i], "" outside the string
Ch(s, i) == IF i >= 1 /\ i <= Len(s) THEN SubSeq(s, i, i) ELSE ""

\* s.startswith(lit, i-1)
StartsAt(s, lit, i) ==
    i >= 1 /\ i + Len(lit) - 1 <= Len(s) /\ SubSeq(s, i, i + Len(lit) - 1) = lit

\* lit in s
Find(s, lit) == \E i \in 1..Len(s) : StartsAt(s, lit, i)

UpperCase == <<"A", "B", "C", "D", "E", "F", "G", "H", "I", "J", "K", "L", "M",
               "N", "O", "P", "Q", "R", "S", "T", "U", "V", "W", "X", "Y", "Z">>
LowerCase == <<"a", "b", "c", "d", "e", "f", "g", "h", "i", "j", "k", "l", "m",
               "n", "o", "p", "q", "r", "s", "t", "u", "v", "w", "x", "y", "z">>
Digits == {"0", "1", "2", "3", "4", "5", "6", "7", "8", "9"}

LowerCh(c) ==
    IF \E i \in 1..26 : UpperCase[i] = c
    THEN LowerCase[CHOOSE i \in 1..26 : UpperCase[i] = c]
    ELSE c

RECURSIVE LowerFrom(_, _, _)
\* the lowered s[i-1:j], by halves
LowerFrom(s, i, j) ==
    IF i > j THEN ""
    ELSE IF i = j THEN LowerCh(Ch(s, i))
    ELSE LowerFrom(s, i, (i + j) \div 2) \o LowerFrom(s, (i + j) \div 2 + 1, j)

\* s.lower(); matching under re.IGNORECASE is matching the lowered text
\* against the lowered pattern
Lower(s) == LowerFrom(s, 1, Len(s))

\* \s
Spaces == {" ", "\t", "\n", "\r", "\f"}
IsSpace(c) == c \in Spaces
\* \d
IsDigit(c) == c \in Digits
\* [a-f0-9], of a lowered text
IsHex(c) == c \in Digits \cup {"a", "b", "c", "d", "e", "f"}
\* \w, of a lowered text
IsWordCh(c) == c \in Digits \cup {LowerCase[i] : i \in 1..26} \cup {"_"}
\* \b before s[i-1]
WordBoundary(s, i) == IsWordCh(Ch(s, i - 1)) # IsWordCh(Ch(s, i))

\* s.strip() == ""
IsBlank(s) == \A i \in 1..Len(s) : IsSpace(Ch(s, i))

\* the first index from i on whose character is in chars (member) or is not
\* in chars (~member), Len(s) + 1 when there is none
FirstFrom(s, i, chars, member) ==
    IF i > Len(s) THEN i
    ELSE CHOOSE j \in i..(Len(s) + 1) :
           /\ j = Len(s) + 1 \/ (Ch(s, j) \in chars) = member
           /\ \A p \in i..(j - 1) : (Ch(s, p) \in chars) # member

\* where \s* started at i ends
SkipSpaces(s, i) == FirstFrom(s, i, Spaces, FALSE)

\* where \d* started at i ends
SkipDigits(s, i) == FirstFrom(s, i, Digits, FALSE)

\* the first index from i on that holds c, Len(s) + 1 when none does
SkipTo(s, c, i) == FirstFrom(s, i, {c}, TRUE)

\* [^\s]* can span s[i-1:j]
NoSpace(s, i, j) == \A p \in i..j : ~IsSpace(Ch(s, p))

\* [a-f0-9]{40} at i
Hex40At(s, i) == i + 39 <= Len(s) /\ \A p \in i..(i + 39) : IsHex(Ch(s, p))

\* \d+ at i, then lit
DigitsThen(s, i, lit) ==
    LET d == SkipDigits(s, i) IN d > i /\ StartsAt(s, lit, d)

\* https?:// at i: the index behind it, 0 when it is not there
AfterScheme(s, i) ==
    IF StartsAt(s, "http://", i) THEN i + 7
    ELSE IF StartsAt(s, "https://", i) THEN i + 8
    ELSE 0

\* [^\s]*gerrit from a on: the indices behind such a match
AfterGerrit(s, a) ==
    {g + 6 : g \in {g \in a..Len(s) : StartsAt(s, "gerrit", g) /\ NoSpace(s, a, g - 1)}}

\* ------------------------------------------------ GerritPatternMatcher

\* The pattern tables, each pattern under its regular expression's source.
PRIMARY_PATTERNS == <<"\\*Gerrit change\\* submitted">>
SECONDARY_PATTERNS ==
    <<"\\*\\(Gerrit review\\)\\*", "Gerrit change", "Gerrit review">>
URL_PATTERNS ==
    <<"https?://[^\\s]*gerrit[^\\s]*/r/c/\\d+(?:/\\d+)?", "/r/c/\\d+/\\d+", "/r/c/\\d+">>
COMMIT_PATTERNS ==
    <<"Commit:\\s*\\b[a-f0-9]{40}\\b", "Issue\\s*#\\d+:", "\\b[a-f0-9]{40}\\b">>
TEXTILE_PATTERNS ==
    <<"\\*\"[^\"]*\":https?://[^\\s]*gerrit[^\\s]*", "p\\(\\(\\(\\.\\s*\\*Issue\\s*#\\d+:">>

\* the class attributes of GerritPatternMatcher, shared by every instance
PatternTables ==
    [PRIMARY |-> PRIMARY_PATTERNS, SECONDARY |-> SECONDARY_PATTERNS,
     URL |-> URL_PATTERNS, COMMIT |-> COMMIT_PATTERNS, TEXTILE |-> TEXTILE_PATTERNS]

code_review_keywords ==
    <<"review", "reviewed", "reviewing",
      "approved", "approve", "approval",
      "rejected", "reject", "rejection",
      "commit", "committed", "commits",
      "merge", "merged", "merging",
      "pull request", "PR",
      "code review", "peer review">>

\* Issue\s*#\d+: at i
IssueRefAt(t, i) ==
    /\ StartsAt(t, "issue", i)
    /\ LET j == SkipSpaces(t, i + 5) IN
         Ch(t, j) = "#" /\ DigitsThen(t, j + 1, ":")

\* the pattern, one of the five tables', has a match in the lowered text t
\* of length n
pattern_search(pattern, t, n) ==
        CASE pattern = "\\*Gerrit change\\* submitted" ->
               Find(t, "*gerrit change* submitted")
          [] pattern = "\\*\\(Gerrit review\\)\\*" -> Find(t, "*(gerrit review)*")
          [] pattern = "Gerrit change" -> Find(t, "gerrit change")
          [] pattern = "Gerrit review" -> Find(t, "gerrit review")
          [] pattern = "https?://[^\\s]*gerrit[^\\s]*/r/c/\\d+(?:/\\d+)?" ->
               \E i \in 1..n :
                 /\ AfterScheme(t, i) > 0
                 /\ \E g \in AfterGerrit(t, AfterScheme(t, i)) :
                      \E r \in g..n :
                        /\ StartsAt(t, "/r/c/", r)
                        /\ NoSpace(t, g, r - 1)
                        /\ IsDigit(Ch(t, r + 5))
          [] pattern = "/r/c/\\d+/\\d+" ->
               \E r \in 1..n :
                 /\ StartsAt(t, "/r/c/", r)
                 /\ DigitsThen(t, r + 5, "/")
                 /\ IsDigit(Ch(t, SkipDigits(t, r + 5) + 1))
          [] pattern = "/r/c/\\d+" ->
               \E r \in 1..n : StartsAt(t, "/r/c/", r) /\ IsDigit(Ch(t, r + 5))
          [] pattern = "Commit:\\s*\\b[a-f0-9]{40}\\b" ->
               \E i \in 1..n :
                 /\ StartsAt(t, "commit:", i)
                 /\ LET j == SkipSpaces(t, i + 7) IN
                      /\ WordBoundary(t, j)
                      /\ Hex40At(t, j)
                      /\ WordBoundary(t, j + 40)
          [] pattern = "Issue\\s*#\\d+:" -> \E i \in 1..n : IssueRefAt(t, i)
          [] pattern = "\\b[a-f0-9]{40}\\b" ->
               \E i \in 1..n :
                 WordBoundary(t, i) /\ Hex40At(t, i) /\ WordBoundary(t, i + 40)
          [] pattern = "\\*\"[^\"]*\":https?://[^\\s]*gerrit[^\\s]*" ->
               \E i \in 1..n :
                 /\ StartsAt(t, "*\"", i)
                 /\ LET q == SkipTo(t, "\"", i + 2) IN
                      /\ Ch(t, q + 1) = ":"
                      /\ AfterScheme(t, q + 2) > 0
                      /\ AfterGerrit(t, AfterScheme(t, q + 2)) # {}
          [] pattern = "p\\(\\(\\(\\.\\s*\\*Issue\\s*#\\d+:" ->
               \E i \in 1..n :
                 /\ StartsAt(t, "p(((.", i)
                 /\ LET j == SkipSpaces(t, i + 5) IN
                      Ch(t, j) = "*" /\ IssueRefAt(t, j + 1)

\* re.compile(pattern, re.IGNORECASE).search(text) is not None
re_search(pattern, text) == pattern_search(pattern, Lower(text), Len(text))

\* re.search(r'\b' + keyword + r'\b', text, re.IGNORECASE) is not None
keyword_search(keyword, text) ==
    LET word_at(t, w) ==
          \E i \in 1..Len(t) :
            StartsAt(t, w, i) /\ WordBoundary(t, i) /\ WordBoundary(t, i + Len(w))
    IN  word_at(Lower(text), Lower(keyword))

\* sum(1 for pattern in patterns if pattern.search(text))
pattern_matches(patterns, text) ==
    Cardinality({i \in 1..Len(patterns) : re_search(patterns[i], text)})

\* a rule that counts the matching patterns only, not their groups
is_gerrit_entry_by_total(text) ==
    IF ~Truthy(text) \/ ~IsStr(text) THEN FALSE
    ELSE IF \E i \in 1..Len(PRIMARY_PATTERNS) : re_search(PRIMARY_PATTERNS[i], text.s)
    THEN TRUE
    ELSE pattern_matches(SECONDARY_PATTERNS, text.s) + pattern_matches(URL_PATTERNS, text.s)
           + pattern_matches(COMMIT_PATTERNS, text.s)
           + pattern_matches(TEXTILE_PATTERNS, text.s) >= 2

is_gerrit_entry(text) ==
    IF ~Truthy(text) \/ ~IsStr(text) THEN FALSE
    ELSE IF \E i \in 1..Len(PRIMARY_PATTERNS) : re_search(PRIMARY_PATTERNS[i], text.s)
    THEN TRUE
    ELSE LET indicated(secondary_matches, url_matches, commit_matches, textile_matches) ==
               LET total_indicators ==
                     secondary_matches + url_matches + commit_matches + textile_matches
                   counts ==
                     <<secondary_matches, url_matches, commit_matches, textile_matches>>
                   present_groups == Cardinality({i \in 1..4 : counts[i] > 0})
               IN  present_groups >= 2 /\ total_indicators >= 2
         IN  indicated(pattern_matches(SECONDARY_PATTERNS, text.s),
                       pattern_matches(URL_PATTERNS, text.s),
                       pattern_matches(COMMIT_PATTERNS, text.s),
                       pattern_matches(TEXTILE_PATTERNS, text.s))

RECURSIVE bold_finditer(_, _)
\* [m.group(1) for m in re.finditer(r'\*([^*]+)\*', s)], scanning from i
bold_finditer(s, i) ==
    LET a == SkipTo(s, "*", i) IN
      IF a > Len(s) THEN <<>>
      ELSE LET j == SkipTo(s, "*", a + 1) IN
             IF j > a + 1 /\ j <= Len(s)
             THEN <<SubSeq(s, a + 1, j - 1)>> \o bold_finditer(s, j + 1)
             ELSE bold_finditer(s, a + 1)

\* [^\s*]
IsUrlCh(c) == c # "" /\ ~IsSpace(c) /\ c # "*"

\* where [^\s*]* started at i ends
SkipUrl(s, i) == FirstFrom(s, i, Spaces \cup {"*"}, TRUE)

RECURSIVE link_finditer(_, _)
\* the matches of r'"([^"]+)":([^\s*]+)' in s, scanning from i
link_finditer(s, i) ==
    LET a == SkipTo(s, "\"", i) IN
      IF a > Len(s) THEN <<>>
      ELSE LET q == SkipTo(s, "\"", a + 1) IN
             IF q > a + 1 /\ Ch(s, q + 1) = ":" /\ IsUrlCh(Ch(s, q + 2))
             THEN LET e == SkipUrl(s, q + 2) IN
                    <<[text |-> SubSeq(s, a + 1, q - 1), url |-> SubSeq(s, q + 2, e - 1)]>>
                      \o link_finditer(s, e)
             ELSE link_finditer(s, a + 1)

\* the bold spans and the links of the parsed markup (the paragraphs and
\* issue references are extracted too and read by no caller)
parse_textile_markup(text) ==
    IF ~Truthy(text) \/ ~IsStr(text) THEN [bold_text |-> <<>>, links |-> <<>>]
    ELSE [bold_text |-> bold_finditer(text.s, 1), links |-> link_finditer(text.s, 1)]

has_textile_gerrit_formatting(text) ==
    IF ~Truthy(text) \/ ~IsStr(text) THEN FALSE
    ELSE IF \E i \in 1..Len(TEXTILE_PATTERNS) : re_search(TEXTILE_PATTERNS[i], text.s)
    THEN TRUE
    ELSE LET gerrit_markup(parsed) ==
               \/ \E i \in 1..Len(parsed.links) :
                    \/ Find(Lower(parsed.links[i].url), "gerrit")
                    \/ Find(parsed.links[i].url, "/r/c/")
               \/ \E i \in 1..Len(parsed.bold_text) :
                    \E keyword \in {"gerrit", "change", "review"} :
                      Find(Lower(parsed.bold_text[i]), keyword)
         IN  gerrit_markup(parse_textile_markup(text))

contains_code_review_patterns(text) ==
    IF ~Truthy(text) \/ ~IsStr(text) THEN FALSE
    ELSE IF is_gerrit_entry(text) THEN TRUE
    ELSE IF has_textile_gerrit_formatting(text) THEN TRUE
    ELSE Cardinality({i \in 1..Len(code_review_keywords) :
                        keyword_search(code_review_keywords[i], text.s)}) >= 2

\* ---------------------------------------------------- journal filters

\* JournalFilterConfig(code_review_only=v)
JournalFilterConfig(v) == [k |-> "JournalFilterConfig", code_review_only |-> v]

\* handlers that catch no error at all
NoMatchingErrors == {}

\* except (re.error, TypeError, AttributeError, KeyError)
MatchingErrors == {"re.error", "TypeError", "AttributeError", "KeyError"}

\* JournalFilterDetector.contains_code_review_patterns
detector_contains_code_review_patterns(text) == contains_code_review_patterns(text)

\* str(v or ''), of a string, null, a boolean or an integer
StrOrEmpty(v) ==
    IF ~Truthy(v) THEN ""
    ELSE CASE IsStr(v) -> v.s
           [] IsBool(v) -> "True"
           [] OTHER -> ToString(IntOf(v))

\* JournalFilterDetector._has_code_review_details, of a list of details
has_code_review_details(details) ==
    IF ~Truthy(details) THEN FALSE
    ELSE \E i \in 1..Len(details.e) :
           /\ IsDict(details.e[i])
           /\ StrOrEmpty(Get(details.e[i], "property", PyNone)) = "cf"
           /\ \E keyword \in {"review", "commit", "merge", "approval", "gerrit"} :
                Find(Lower(StrOrEmpty(Get(details.e[i], "name", PyNone))), keyword)

\* JournalFilterDetector.is_code_review_entry, of a mapping
is_code_review_entry(journal_entry) ==
    LET by_notes(notes) ==
          /\ Truthy(notes) /\ IsStr(notes) /\ ~IsBlank(notes.s)
          /\ detector_contains_code_review_patterns(notes)
    IN  \/ by_notes(Get(journal_entry, "notes", PyStr("")))
        \/ has_code_review_details(Get(journal_entry, "details", L(<<>>)))

\* self.detector.is_code_review_entry(journal_entry): the detector's answer,
\* the attribute error of a non-mapping, or the exception side_effect of a
\* detector put in its place
detector_is_code_review_entry(journal_entry, side_effect) ==
    IF IsRaise(side_effect) THEN side_effect
    ELSE IF ~IsDict(journal_entry) THEN Raise("AttributeError")
    ELSE PyBool(is_code_review_entry(journal_entry))

\* JournalFilterProcessor.should_include_journal, detected being what the
\* detector gave: except (re.error, TypeError, AttributeError, KeyError)
should_include_journal(detected) ==
    IF IsRaise(detected) /\ detected.x \in MatchingErrors THEN PyBool(FALSE)
    ELSE detected

\* journal_entry.get('notes', ''), the attribute error of a non-mapping included
get_notes(journal_entry) ==
    IF IsDict(journal_entry) THEN Get(journal_entry, "notes", PyStr(""))
    ELSE Raise("AttributeError")

\* the decision of _should_include_journal_aggressive on the notes read
include_by_notes(notes) ==
    IF IsRaise(notes) THEN
      IF notes.x \in MatchingErrors THEN PyBool(FALSE) ELSE notes
    ELSE IF ~Truthy(notes) \/ ~IsStr(notes) THEN PyBool(FALSE)
    ELSE IF IsBlank(notes.s) THEN PyBool(FALSE)
    ELSE PyBool(detector_contains_code_review_patterns(notes))

\* an inclusion test as loose as should_include_journal: the details count
should_include_journal_by_details(journal_entry) ==
    IF IsDict(journal_entry) THEN PyBool(is_code_review_entry(journal_entry))
    ELSE PyBool(FALSE)

should_include_journal_aggressive(journal_entry) ==
    include_by_notes(get_notes(journal_entry))

\* an entry handed on as it is, its details included
keep_details_field(journal_entry) == journal_entry

strip_details_field(journal_entry) ==
    IF ~IsDict(journal_entry) THEN journal_entry
    ELSE Pop(PyDict(<<"copy">> \o journal_entry.o, journal_entry.m), "details")

RECURSIVE filter_journals_loop(_, _, _)
\* one pass of the loop of filter_journals, include being what
\* should_include_journal said of journals[i-1]
filter_journals_step(journals, i, filtered_journals, include) ==
    IF IsRaise(include) THEN
      IF include.x \in MatchingErrors
      THEN filter_journals_loop(journals, i + 1, filtered_journals)
      ELSE include
    ELSE IF include.b THEN
      filter_journals_loop(journals, i + 1,
          PyList(filtered_journals.o,
                 Append(filtered_journals.e, strip_details_field(journals.e[i]))))
    ELSE filter_journals_loop(journals, i + 1, filtered_journals)

filter_journals_loop(journals, i, filtered_journals) ==
    IF i > Len(journals.e) THEN filtered_journals
    ELSE filter_journals_step(journals, i, filtered_journals,
                              should_include_journal_aggressive(journals.e[i]))

filter_journals(journals, config) ==
    IF ~Truthy(config.code_review_only) THEN journals
    ELSE IF ~Truthy(journals) THEN PyList(<<"filter_journals">> \o journals.o, <<>>)
    ELSE filter_journals_loop(journals, 1,
                              PyList(<<"filter_journals">> \o journals.o, <<>>))

\* ---------------------------------------------------- response filters

\* FilterConfig(), every option at its default
FilterConfig ==
    [k |-> "FilterConfig", include_fields |-> PyNone, exclude_fields |-> PyNone,
     remove_empty |-> PyBool(FALSE), remove_custom_fields |-> PyBool(FALSE),
     keep_custom_fields |-> PyNone, max_description_length |-> PyNone,
     max_array_items |-> PyNone, journals |-> PyNone]

is_empty_value(value) ==
    \/ IsNull(value)
    \/ IsStr(value) /\ IsBlank(value.s)
    \/ (IsList(value) /\ Len(value.e) = 0)
    \/ (IsDict(value) /\ Len(value.m) = 0)

\* x in lst, for a Python list lst
InList(x, lst) == \E i \in 1..Len(lst.e) : Val(lst.e[i]) = Val(x)

RECURSIVE filter_custom_fields_loop(_, _, _, _)
filter_custom_fields_loop(custom_fields, keep_fields, i, filtered) ==
    IF i > Len(custom_fields.e) THEN filtered
    ELSE LET field == custom_fields.e[i] IN
           IF ~IsDict(field) THEN Raise("AttributeError")
           ELSE IF InList(Get(field, "name", PyStr("")), keep_fields)
           THEN filter_custom_fields_loop(custom_fields, keep_fields, i + 1,
                    PyList(filtered.o, Append(filtered.e, field)))
           ELSE filter_custom_fields_loop(custom_fields, keep_fields, i + 1, filtered)

filter_custom_fields(custom_fields, keep_fields) ==
    filter_custom_fields_loop(custom_fields, keep_fields, 1,
        PyList(<<"filter_custom_fields">> \o custom_fields.o, <<>>))

WrapperKeys == {"issue", "issues", "projects", "users", "time_entries"}
LongTextKeys == {"description", "notes", "text"}
TruncationMarker == "... [truncated]"

\* the journals branch of filter_dict: the filtered list, the unfiltered
\* one when the processor raised a matching error
filter_dict_journals(value, config) ==
    LET except_matching(filtered_journals) ==
          IF IsRaise(filtered_journals) /\ filtered_journals.x \in MatchingErrors
          THEN value
          ELSE filtered_journals
    IN  except_matching(filter_journals(value, config.journals))

\* exclude_fields names key, whatever include_fields is
exclude_drops_listed(key, config) ==
    Truthy(config.exclude_fields) /\ InList(PyStr(key), config.exclude_fields)

\* a selection that lets no key through that include_fields does not name,
\* the wrapper keys too
include_drops_wrappers(key, config) ==
    /\ Truthy(config.include_fields)
    /\ ~InList(PyStr(key), config.include_fields)

\* include_fields is set and does not let key through
include_drops(key, config) ==
    /\ Truthy(config.include_fields)
    /\ key \notin WrapperKeys
    /\ ~InList(PyStr(key), config.include_fields)

\* exclude_fields is consulted and names key
exclude_drops(key, config) ==
    /\ ~Truthy(config.include_fields)
    /\ Truthy(config.exclude_fields)
    /\ InList(PyStr(key), config.exclude_fields)

\* a test that takes a text of exactly the limit for a long one
truncates_at_limit(key, value, config) ==
    /\ key \in LongTextKeys
    /\ IsStr(value)
    /\ Truthy(config.max_description_length)
    /\ Len(value.s) >= IntOf(config.max_description_length)

\* a test that knows the key description alone
truncates_description_only(key, value, config) ==
    /\ key = "description"
    /\ IsStr(value)
    /\ Truthy(config.max_description_length)
    /\ Len(value.s) > IntOf(config.max_description_length)

\* the value is a long text over the configured limit
truncates(key, value, config) ==
    /\ key \in LongTextKeys
    /\ IsStr(value)
    /\ Truthy(config.max_description_length)
    /\ Len(value.s) > IntOf(config.max_description_length)

\* the marker put behind the whole text
marked_whole(value, config) == PyStr(value.s \o TruncationMarker)

truncated(value, config) ==
    PyStr(SubSeq(value.s, 1, IntOf(config.max_description_length)) \o TruncationMarker)

RECURSIVE filter_data(_, _)
RECURSIVE filter_dict_loop(_, _, _, _)
RECURSIVE filter_list_loop(_, _, _, _)

\* the journals branch is tried ahead of field selection
filter_dict_branch_journals_first(key, value, config) ==
    IF Truthy(config.remove_empty) /\ is_empty_value(value) THEN "empty"
    ELSE IF key = "custom_fields" /\ IsList(value)
            /\ Truthy(config.remove_custom_fields) THEN "custom_fields_removed"
    ELSE IF key = "custom_fields" /\ IsList(value)
            /\ Truthy(config.keep_custom_fields) THEN "custom_fields_kept"
    ELSE IF key = "journals" /\ IsList(value) /\ Truthy(config.journals) THEN "journals"
    ELSE IF include_drops(key, config) THEN "not_included"
    ELSE IF exclude_drops(key, config) THEN "excluded"
    ELSE IF truncates(key, value, config) THEN "truncated"
    ELSE "nested"

\* field selection is tried ahead of the custom fields
filter_dict_branch_selection_first(key, value, config) ==
    IF Truthy(config.remove_empty) /\ is_empty_value(value) THEN "empty"
    ELSE IF include_drops(key, config) THEN "not_included"
    ELSE IF exclude_drops(key, config) THEN "excluded"
    ELSE IF key = "custom_fields" /\ IsList(value)
            /\ Truthy(config.remove_custom_fields) THEN "custom_fields_removed"
    ELSE IF key = "custom_fields" /\ IsList(value)
            /\ Truthy(config.keep_custom_fields) THEN "custom_fields_kept"
    ELSE IF key = "journals" /\ IsList(value) /\ Truthy(config.journals) THEN "journals"
    ELSE IF truncates(key, value, config) THEN "truncated"
    ELSE "nested"

\* the branch the loop body of filter_dict takes for one item: its tests in
\* their order
filter_dict_branch(key, value, config) ==
    IF Truthy(config.remove_empty) /\ is_empty_value(value) THEN "empty"
    ELSE IF key = "custom_fields" /\ IsList(value)
            /\ Truthy(config.remove_custom_fields) THEN "custom_fields_removed"
    ELSE IF key = "custom_fields" /\ IsList(value)
            /\ Truthy(config.keep_custom_fields) THEN "custom_fields_kept"
    ELSE IF include_drops(key, config) THEN "not_included"
    ELSE IF exclude_drops(key, config) THEN "excluded"
    ELSE IF key = "journals" /\ IsList(value) /\ Truthy(config.journals) THEN "journals"
    ELSE IF truncates(key, value, config) THEN "truncated"
    ELSE "nested"

filter_dict_loop(data, config, i, filtered) ==
    IF i > Len(data.m) THEN filtered
    ELSE
      LET key == data.m[i][1]
          value == data.m[i][2]
          skip == filter_dict_loop(data, config, i + 1, filtered)
          put(v) == IF IsRaise(v) THEN v
                    ELSE filter_dict_loop(data, config, i + 1, SetItem(filtered, key, v))
          put_fields(filtered_custom_fields) ==
              IF IsRaise(filtered_custom_fields) \/ Truthy(filtered_custom_fields)
              THEN put(filtered_custom_fields)
              ELSE skip
          take(branch) ==
              CASE branch = "custom_fields_kept" ->
                     put_fields(filter_custom_fields(value, config.keep_custom_fields))
                [] branch = "journals" -> put(filter_dict_journals(value, config))
                [] branch = "truncated" -> put(truncated(value, config))
                [] branch = "nested" -> put(filter_data(value, config))
                [] OTHER -> skip
      IN  take(filter_dict_branch(key, value, config))

filter_dict(data, config) ==
    filter_dict_loop(data, config, 1, PyDict(<<"filter_dict">> \o data.o, <<>>))

RECURSIVE filter_list_loop_late_break(_, _, _, _)
\* a loop that stops one item late: once more than max_array_items are kept
filter_list_loop_late_break(data, config, i, filtered) ==
    IF i > Len(data.e) THEN filtered
    ELSE
      LET append(filtered_item) ==
            IF IsRaise(filtered_item) THEN filtered_item
            ELSE IF Truthy(config.remove_empty) /\ is_empty_value(filtered_item)
            THEN filter_list_loop_late_break(data, config, i + 1, filtered)
            ELSE IF Truthy(config.max_array_items)
                    /\ Len(filtered.e) + 1 > IntOf(config.max_array_items)
            THEN PyList(filtered.o, Append(filtered.e, filtered_item))
            ELSE filter_list_loop_late_break(data, config, i + 1,
                     PyList(filtered.o, Append(filtered.e, filtered_item)))
      IN  append(filter_data(data.e[i], config))

filter_list_loop(data, config, i, filtered) ==
    IF i > Len(data.e) THEN filtered
    ELSE
      LET append(filtered_item) ==
            IF IsRaise(filtered_item) THEN filtered_item
            ELSE IF Truthy(config.remove_empty) /\ is_empty_value(filtered_item)
            THEN filter_list_loop(data, config, i + 1, filtered)
            ELSE IF Truthy(config.max_array_items)
                    /\ Len(filtered.e) + 1 >= IntOf(config.max_array_items)
            THEN PyList(filtered.o, Append(filtered.e, filtered_item))
            ELSE filter_list_loop(data, config, i + 1,
                                  PyList(filtered.o, Append(filtered.e, filtered_item)))
      IN  append(filter_data(data.e[i], config))

filter_list(data, config) ==
    filter_list_loop(data, config, 1, PyList(<<"filter_list">> \o data.o, <<>>))

filter_data(data, config) ==
    IF IsDict(data) THEN filter_dict(data, config)
    ELSE IF IsList(data) THEN filter_list(data, config)
    ELSE data

\* the notes filter_journals hands to the classifier, in their order: those
\* of the entries that pass the tests ahead of it
journals_classified(journals, config) ==
    IF ~Truthy(config.code_review_only) \/ ~Truthy(journals) THEN <<>>
    ELSE LET Reaches(journal_entry) ==
               /\ IsDict(journal_entry)
               /\ Truthy(get_notes(journal_entry))
               /\ IsStr(get_notes(journal_entry))
               /\ ~IsBlank(get_notes(journal_entry).s)
             notes_of(reaching) == [i \in 1..Len(reaching) |-> get_notes(reaching[i]).s]
         IN  notes_of(SelectSeq(journals.e, Reaches))

RECURSIVE classified_data(_, _)
RECURSIVE classified_dict_loop(_, _, _)
RECURSIVE classified_list_loop(_, _, _, _)

\* the notes handed to the classifier by the loop of filter_dict from item i
\* on; the loop ends where an item raises
classified_dict_loop(data, config, i) ==
    IF i > Len(data.m) THEN <<>>
    ELSE
      LET value == data.m[i][2]
          rest == classified_dict_loop(data, config, i + 1)
          then(calls, v) == calls \o (IF IsRaise(v) THEN <<>> ELSE rest)
          log(branch) ==
              CASE branch = "custom_fields_kept" ->
                     then(<<>>, filter_custom_fields(value, config.keep_custom_fields))
                [] branch = "journals" ->
                     then(journals_classified(value, config.journals),
                          filter_dict_journals(value, config))
                [] branch = "nested" ->
                     then(classified_data(value, config), filter_data(value, config))
                [] OTHER -> rest
      IN  log(filter_dict_branch(data.m[i][1], value, config))

\* the same for the loop of filter_list, n items being kept so far; the
\* loop ends where an item raises or the limit is reached
classified_list_loop(data, config, i, n) ==
    IF i > Len(data.e) THEN <<>>
    ELSE
      LET after(filtered_item) ==
            IF IsRaise(filtered_item) THEN <<>>
            ELSE IF Truthy(config.remove_empty) /\ is_empty_value(filtered_item)
            THEN classified_list_loop(data, config, i + 1, n)
            ELSE IF Truthy(config.max_array_items)
                    /\ n + 1 >= IntOf(config.max_array_items)
            THEN <<>>
            ELSE classified_list_loop(data, config, i + 1, n + 1)
      IN  classified_data(data.e[i], config) \o after(filter_data(data.e[i], config))

\* the notes handed to the classifier while filter_data(data, config) runs
classified_data(data, config) ==
    IF IsDict(data) THEN classified_dict_loop(data, config, 1)
    ELSE IF IsList(data) THEN classified_list_loop(data, config, 1, 0)
    ELSE <<>>

remove_empty_fields(data) ==
    filter_data(data, [FilterConfig EXCEPT !.remove_empty = PyBool(TRUE)])

\* the nesting the interpreter's stack lets copy.deepcopy follow, scaled down
RecursionLimit == 8

\* the messages of validate_filter_config, as one Python list
Errors(msgs) == PyList(<<"errors">>, [i \in 1..Len(msgs) |-> PyStr(msgs[i])])

RECURSIVE invalid_journal_options(_, _)
\* a validation that takes every key of journals_config for a valid option
any_journal_options(m, i) == <<>>

\* one message for every key of journals_config that is no valid option
invalid_journal_options(m, i) ==
    IF i > Len(m) THEN <<>>
    ELSE (IF m[i][1] \notin {"code_review_only"}
          THEN <<"Invalid journal filter option: " \o m[i][1]>>
          ELSE <<>>) \o invalid_journal_options(m, i + 1)

validate_journals(mcp_filter) ==
    IF ~HasKey(mcp_filter, "journals") THEN <<>>
    ELSE LET journals_config == Get(mcp_filter, "journals", PyNone) IN
           IF ~IsDict(journals_config)
           THEN <<"journals filter must be a dictionary">>
           ELSE invalid_journal_options(journals_config.m, 1)
                \o (IF HasKey(journals_config, "code_review_only")
                       /\ ~IsBool(Get(journals_config, "code_review_only", PyNone))
                    THEN <<"code_review_only must be a boolean value">>
                    ELSE <<>>)

validate_positive_int(mcp_filter, key) ==
    IF HasKey(mcp_filter, key)
       /\ (~IsInt(Get(mcp_filter, key, PyNone))
           \/ IntOf(Get(mcp_filter, key, PyNone)) <= 0)
    THEN <<key \o " must be a positive integer">>
    ELSE <<>>

validate_string_list(mcp_filter, key) ==
    IF ~HasKey(mcp_filter, key) THEN <<>>
    ELSE LET v == Get(mcp_filter, key, PyNone) IN
           IF ~IsList(v) THEN <<key \o " must be a list of strings">>
           ELSE IF ~(\A i \in 1..Len(v.e) : IsStr(v.e[i]))
           THEN <<key \o " list items must be strings">>
           ELSE <<>>

validate_boolean(mcp_filter, key) ==
    IF HasKey(mcp_filter, key) /\ ~IsBool(Get(mcp_filter, key, PyNone))
    THEN <<key \o " must be a boolean value">>
    ELSE <<>>

\* the option keys validate_filter_config looks up
ValidatedKeys ==
    {"journals", "max_description_length", "max_array_items", "include_fields",
     "exclude_fields", "keep_custom_fields", "remove_empty", "remove_custom_fields"}

\* key in mcp_filter, for options that are a string or a list
ContainsKey(mcp_filter, key) ==
    IF IsStr(mcp_filter) THEN Find(mcp_filter.s, key)
    ELSE InList(PyStr(key), mcp_filter)

\* a validation that stops at the first error it finds
validate_filter_config_first_error(mcp_filter) ==
    IF IsDict(mcp_filter) THEN
      LET first(msgs) == Errors(IF Len(msgs) = 0 THEN msgs ELSE <<msgs[1]>>)
      IN  first(validate_journals(mcp_filter)
                \o validate_positive_int(mcp_filter, "max_description_length")
                \o validate_positive_int(mcp_filter, "max_array_items")
                \o validate_string_list(mcp_filter, "include_fields")
                \o validate_string_list(mcp_filter, "exclude_fields")
                \o validate_string_list(mcp_filter, "keep_custom_fields")
                \o validate_boolean(mcp_filter, "remove_empty")
                \o validate_boolean(mcp_filter, "remove_custom_fields"))
    ELSE IF IsStr(mcp_filter) \/ IsList(mcp_filter) THEN
      IF \E key \in ValidatedKeys : ContainsKey(mcp_filter, key)
      THEN Raise("TypeError")
      ELSE Errors(<<>>)
    ELSE Raise("TypeError")

validate_filter_config(mcp_filter) ==
    IF IsDict(mcp_filter) THEN
      Errors(validate_journals(mcp_filter)
             \o validate_positive_int(mcp_filter, "max_description_length")
             \o validate_positive_int(mcp_filter, "max_array_items")
             \o validate_string_list(mcp_filter, "include_fields")
             \o validate_string_list(mcp_filter, "exclude_fields")
             \o validate_string_list(mcp_filter, "keep_custom_fields")
             \o validate_boolean(mcp_filter, "remove_empty")
             \o validate_boolean(mcp_filter, "remove_custom_fields"))
    ELSE IF IsStr(mcp_filter) \/ IsList(mcp_filter) THEN
      \* the first key found is then looked up by mcp_filter[key]
      IF \E key \in ValidatedKeys : ContainsKey(mcp_filter, key)
      THEN Raise("TypeError")
      ELSE Errors(<<>>)
    ELSE Raise("TypeError")

\* lines 125-146 of apply_response_filter: the FilterConfig of validated options
parse_filter_config(mcp_filter) ==
    IF ~IsDict(mcp_filter) THEN Raise("AttributeError")
    ELSE
      LET journals_dict == Get(mcp_filter, "journals", PyNone)
          journals_config ==
              IF HasKey(mcp_filter, "journals") /\ IsDict(journals_dict)
              THEN JournalFilterConfig(Get(journals_dict, "code_review_only", PyBool(FALSE)))
              ELSE PyNone
      IN  [k |-> "FilterConfig",
           include_fields |-> Get(mcp_filter, "include_fields", PyNone),
           exclude_fields |-> Get(mcp_filter, "exclude_fields", PyNone),
           remove_empty |-> Get(mcp_filter, "remove_empty", PyBool(FALSE)),
           remove_custom_fields |-> Get(mcp_filter, "remove_custom_fields", PyBool(FALSE)),
           keep_custom_fields |-> Get(mcp_filter, "keep_custom_fields", PyNone),
           max_description_length |-> Get(mcp_filter, "max_description_length", PyNone),
           max_array_items |-> Get(mcp_filter, "max_array_items", PyNone),
           journals |-> journals_config]

RECURSIVE Depth(_)
\* how deep the containers of v nest
Depth(v) ==
    LET Max(S) == IF S = {} THEN 0 ELSE CHOOSE x \in S : \A y \in S : y <= x IN
      CASE v.k = "list" -> 1 + Max({Depth(v.e[i]) : i \in 1..Len(v.e)})
        [] v.k = "dict" -> 1 + Max({Depth(v.m[i][2]) : i \in 1..Len(v.m)})
        [] OTHER -> 0

RECURSIVE deepcopy_tree(_)
deepcopy_tree(v) ==
    CASE v.k = "list" ->
           PyList(<<"deepcopy">> \o v.o, [i \in 1..Len(v.e) |-> deepcopy_tree(v.e[i])])
      [] v.k = "dict" ->
           PyDict(<<"deepcopy">> \o v.o,
                  [i \in 1..Len(v.m) |-> <<v.m[i][1], deepcopy_tree(v.m[i][2])>>])
      [] OTHER -> v

\* copy.copy(v): a new outermost object around the members of v
shallow_copy(v) ==
    CASE v.k = "list" -> PyList(<<"copy">> \o v.o, v.e)
      [] v.k = "dict" -> PyDict(<<"copy">> \o v.o, v.m)
      [] OTHER -> v

\* copy.deepcopy(v): it recurses once per level of nesting, and raises
\* RecursionError when v nests deeper than the interpreter's stack allows
deepcopy(v) ==
    IF Depth(v) > RecursionLimit THEN Raise("RecursionError") ELSE deepcopy_tree(v)

\* what apply_response_filter leaves: the value returned (or the exception
\* raised) and the caller's envelope object as the call left it
Outcome(ret, response) == [ret |-> ret, response |-> response]

\* the caller's object after the writes that made obj: obj itself when obj
\* is that object
Caller(response, obj) == IF obj.o = response.o THEN obj ELSE response

\* a handler as narrow as the journal processor's: except (re.error,
\* TypeError, KeyError)
HandlesLookupErrors(x) == x \in {"re.error", "TypeError", "KeyError"}

\* except Exception
HandlesException(x) == TRUE

\* the copy with its marker set: what is returned, and the object written
marked(filtered_response) ==
    LET both(obj) == [ret |-> obj, obj |-> obj] IN
      both(SetItem(filtered_response, "mcp_filtered", PyBool(TRUE)))

\* an exception leaving the try block, the copy as it stands
raised(exception, filtered_response) == [ret |-> exception, obj |-> filtered_response]

\* lines 148-155: the body replaced by its filtered form, and the marker
body_filtered(filtered_response, filtered_body) ==
    IF IsRaise(filtered_body) THEN raised(filtered_body, filtered_response)
    ELSE marked(SetItem(filtered_response, "body", filtered_body))

\* lines 125-155, config being what the parsing of the options gave
config_parsed(filtered_response, config) ==
    IF IsRaise(config) THEN raised(config, filtered_response)
    ELSE IF ~Truthy(Get(filtered_response, "body", PyNone)) THEN marked(filtered_response)
    ELSE body_filtered(filtered_response,
                       filter_data(Get(filtered_response, "body", PyNone), config))

\* a try block that still removes the empty fields of the body when the
\* validation reports errors
config_validated_cleaning(filtered_response, mcp_filter, validation_errors) ==
    IF IsRaise(validation_errors) THEN raised(validation_errors, filtered_response)
    ELSE IF Truthy(validation_errors)
    THEN body_filtered(filtered_response,
                       remove_empty_fields(Get(filtered_response, "body", PyNone)))
    ELSE config_parsed(filtered_response, parse_filter_config(mcp_filter))

\* lines 118-155, validation_errors being what the validation gave
config_validated(filtered_response, mcp_filter, validation_errors) ==
    IF IsRaise(validation_errors) THEN raised(validation_errors, filtered_response)
    ELSE IF Truthy(validation_errors) THEN marked(filtered_response)
    ELSE config_parsed(filtered_response, parse_filter_config(mcp_filter))

\* the try block of apply_response_filter (lines 117-155), on the copy:
\* the value returned or the exception raised, and the copy as written
filtered_path(filtered_response, mcp_filter) ==
    config_validated(filtered_response, mcp_filter, validate_filter_config(mcp_filter))

\* a pass-through test that reads the status code alone
is_error_response_by_status(response) ==
    Get(response, "status_code", PyInt(0)) # PyInt(200)

\* response.get("status_code", 0) != 200 or response.get("error")
is_error_response(response) ==
    \/ Get(response, "status_code", PyInt(0)) # PyInt(200)
    \/ Truthy(Get(response, "error", PyNone))

\* the except clause (lines 157-160) around the try block's outcome
except_exception(response, done) ==
    IF IsRaise(done.ret) /\ HandlesException(done.ret.x)
    THEN Outcome(Caller(response, done.obj), Caller(response, done.obj))
    ELSE Outcome(done.ret, Caller(response, done.obj))

\* lines 114-160, filtered_response being what copy.deepcopy gave
response_copied(response, mcp_filter, filtered_response) ==
    IF IsRaise(filtered_response) THEN Outcome(filtered_response, response)
    ELSE except_exception(response, filtered_path(filtered_response, mcp_filter))

apply_response_filter(response, mcp_filter) ==
    IF ~IsDict(response) THEN Outcome(Raise("AttributeError"), response)
    ELSE IF is_error_response(response) THEN Outcome(response, response)
    ELSE response_copied(response, mcp_filter, deepcopy(response))

\* ---------------------------------------------------------- the inputs

\* bounds of the inputs
MaxNest == 8
MaxDepth == 2
MaxJournals == 2
MaxLength == 3
MaxFields == 2
MaxFragments == 2

Absent == [k |-> "absent"]
\* an object that is no mapping, string or list (BadFilterConfig of the tests)
PyObject(cls) == [k |-> "object", cls |-> cls]

\* a mapping literal of the items whose value is not Absent
RECURSIVE Present(_)
Present(m) ==
    IF Len(m) = 0 THEN <<>>
    ELSE (IF m[1][2] = Absent THEN <<>> ELSE <<m[1]>>) \o Present(Tail(m))

GerritNote ==
    "*Gerrit change* submitted *\"(Gerrit review)\":http://gerrit.example/r/c/1/1*"
ReviewNote == "Code review completed and approved"
StatusNote == "Status changed from New to In Progress"
LongText == "A description that is long enough to be truncated"

ReviewDetails ==
    L(<<D(<<<<"property", PyStr("cf")>>, <<"name", PyStr("Review Status")>>,
            <<"old_value", PyStr("Pending")>>, <<"new_value", PyStr("Approved")>>>>)>>)
StatusDetails ==
    L(<<D(<<<<"property", PyStr("attr")>>, <<"name", PyStr("status_id")>>,
            <<"old_value", PyStr("1")>>, <<"new_value", PyStr("2")>>>>)>>)

IssueBody ==
    D(<<<<"issue",
         D(<<<<"id", PyInt(1)>>,
             <<"subject", PyStr("Test Issue")>>,
             <<"description", PyStr(LongText)>>,
             <<"assignee", PyNone>>,
             <<"custom_fields",
               L(<<D(<<<<"name", PyStr("a")>>, <<"value", PyStr("1")>>>>),
                   D(<<<<"name", PyStr("b")>>, <<"value", PyStr("")>>>>)>>)>>,
             <<"journals",
               L(<<D(<<<<"id", PyInt(1)>>, <<"notes", PyStr(StatusNote)>>,
                       <<"details", StatusDetails>>>>),
                   D(<<<<"id", PyInt(2)>>, <<"notes", PyStr(GerritNote)>>,
                       <<"details", ReviewDetails>>>>),
                   D(<<<<"id", PyInt(3)>>, <<"details", ReviewDetails>>>>)>>)>>>>)>>>>)

IssuesBody ==
    D(<<<<"issues",
         L(<<D(<<<<"id", PyInt(1)>>, <<"tags", L(<<>>)>>, <<"notes", PyStr("")>>>>),
             D(<<<<"id", PyInt(2)>>, <<"description", PyStr(LongText)>>>>)>>)>>,
        <<"total_count", PyInt(2)>>>>)

\* custom fields that are no mappings
MalformedBody == D(<<<<"custom_fields", L(<<PyStr("x")>>)>>>>)

RECURSIVE Nested(_)
\* n mappings, one inside the other
Nested(n) == IF n = 0 THEN PyNone ELSE D(<<<<"a", Nested(n - 1)>>>>)

Bodies ==
    {PyNone, D(<<>>), PyStr("plain text"), IssueBody, IssuesBody, MalformedBody,
     Nested(MaxNest - 1), Nested(MaxNest)}

Envelopes ==
    {D(Present(<<<<"status_code", status_code>>, <<"body", body>>, <<"error", error>>>>)) :
       status_code \in {PyInt(200), PyInt(404), Absent},
       body \in Bodies,
       error \in {PyStr(""), PyStr("HTTPError: 404 Not Found"), Absent}}

FilterOptions ==
    {D(Present(<<<<"remove_empty", remove_empty>>, <<"journals", journals>>,
                 <<"max_description_length", max_description_length>>,
                 <<"keep_custom_fields", keep_custom_fields>>>>)) :
       remove_empty \in {Absent, PyBool(TRUE), PyStr("yes")},
       journals \in {Absent, D(<<<<"code_review_only", PyBool(TRUE)>>>>),
                     D(<<<<"code_review_only", PyBool(FALSE)>>>>), D(<<>>),
                     PyStr("invalid_config")},
       max_description_length \in {Absent, PyInt(10), PyInt(0)},
       keep_custom_fields \in {Absent, L(<<PyStr("a")>>)}}
    \cup {D(<<<<"include_fields", L(<<PyStr("id"), PyStr("journals")>>)>>,
             <<"exclude_fields", L(<<PyStr("journals")>>)>>>>),
          D(<<<<"exclude_fields", L(<<PyStr("journals"), PyStr("description")>>)>>>>),
          D(<<<<"remove_custom_fields", PyBool(TRUE)>>, <<"max_array_items", PyInt(1)>>>>),
          D(<<<<"journals", D(<<>>)>>>>),
          D(<<<<"journals", D(<<<<"unknown", PyBool(TRUE)>>>>)>>,
             <<"remove_empty", PyBool(TRUE)>>>>),
          D(<<<<"include_fields", PyStr("id")>>>>),
          D(<<<<"invalid_option", PyBool(TRUE)>>>>),
          D(<<<<"invalid_option", PyBool(TRUE)>>, <<"remove_empty", PyBool(TRUE)>>>>),
          D(<<<<"include_fields", L(<<PyInt(1)>>)>>, <<"exclude_fields", PyStr("x")>>,
             <<"max_array_items", PyInt(0)>>, <<"remove_custom_fields", PyInt(1)>>>>),
          D(<<<<"keep_custom_fields", L(<<PyStr("a"), PyNone>>)>>,
             <<"max_description_length", PyStr("10")>>,
             <<"journals", D(<<<<"code_review_only", PyStr("yes")>>>>)>>>>),
          D(<<<<"journals", PyNone>>, <<"max_description_length", PyInt(-1)>>,
             <<"max_array_items", PyNone>>, <<"include_fields", PyNone>>,
             <<"exclude_fields", L(<<L(<<>>)>>)>>, <<"keep_custom_fields", PyInt(1)>>,
             <<"remove_empty", PyNone>>, <<"remove_custom_fields", PyStr("")>>>>),
          PyNone, PyStr("abc"), L(<<PyStr("journals")>>),
          PyObject("BadFilterConfig")}

\* -------------------------------------------------------- the caller

\* the identities of the lists and mappings of v
RECURSIVE Objects(_)
Objects(v) ==
    CASE v.k = "list" -> {v.o} \cup UNION {Objects(v.e[i]) : i \in 1..Len(v.e)}
      [] v.k = "dict" -> {v.o} \cup UNION {Objects(v.m[i][2]) : i \in 1..Len(v.m)}
      [] OTHER -> {}

\* v as seen after a write to the object id: an item set in a mapping, an
\* element appended to a list
RECURSIVE Written(_, _)
Written(v, id) ==
    CASE v.k = "list" ->
           PyList(v.o, [i \in 1..Len(v.e) |-> Written(v.e[i], id)]
                       \o (IF v.o = id THEN <<PyStr("written")>> ELSE <<>>))
      [] v.k = "dict" ->
           PyDict(v.o, [i \in 1..Len(v.m) |-> <<v.m[i][1], Written(v.m[i][2], id)>>]
                       \o (IF v.o = id THEN <<<<"written", PyBool(TRUE)>>>> ELSE <<>>))
      [] OTHER -> v

VARIABLES
    pc,          \* where the caller is
    response,    \* the caller's envelope object
    mcp_filter,  \* the caller's options object
    given,       \* the envelope and the options as they were handed over
    result,      \* what the call returned, or the exception it raised
    data,        \* the tree handed to the engine
    config,      \* the configuration handed to the engine or the processor
    again,       \* the result of filtering the result once more
    journals,    \* the entries handed to the journal processor
    classified,  \* the notes the engine or the processor handed to the classifier
    calls,       \* the concurrent calls: arguments, position, writes, result
    frames,      \* the local variables of the concurrent calls
    tables       \* the pattern tables of GerritPatternMatcher

vars == <<pc, response, mcp_filter, given, result, data, config, again, journals,
          classified, calls, frames, tables>>

\* ----------------------------------------- Spec: apply_response_filter

Init ==
    /\ pc = "call"
    /\ \E e \in Envelopes, f \in FilterOptions :
         /\ response = Alloc(e, <<"response">>)
         /\ mcp_filter = Alloc(f, <<"mcp_filter">>)
    /\ given = [response |-> response, mcp_filter |-> mcp_filter]
    /\ result = PyNone
    /\ data = PyNone /\ config = PyNone /\ again = PyNone /\ journals = PyNone
    /\ classified = <<>>
    /\ calls = <<>> /\ frames = <<>> /\ tables = PatternTables

\* result = apply_response_filter(response, mcp_filter)
ApplyResponseFilter ==
    /\ pc = "call"
    /\ LET returns(out) == result' = out.ret /\ response' = out.response
       IN  returns(apply_response_filter(response, mcp_filter))
    /\ pc' = "returned"
    /\ UNCHANGED <<calls, frames, tables, mcp_filter, given, data, config, again, journals, classified>>

\* the caller writes to one of the lists or mappings of the result
WriteToResult ==
    /\ pc = "returned"
    /\ ~IsRaise(result)
    /\ \E id \in Objects(result) :
         /\ result' = Written(result, id)
         /\ response' = Written(response, id)
         /\ mcp_filter' = Written(mcp_filter, id)
    /\ pc' = "written"
    /\ UNCHANGED <<calls, frames, tables, given, data, config, again, journals, classified>>

\* result = validate_filter_config(mcp_filter)
ValidateFilterConfig ==
    /\ pc = "call"
    /\ result' = validate_filter_config(mcp_filter)
    /\ pc' = "validated"
    /\ UNCHANGED <<calls, frames, tables, response, mcp_filter, given, data, config, again, journals, classified>>

Next == ApplyResponseFilter \/ WriteToResult \/ ValidateFilterConfig

Spec == Init /\ [][Next]_vars
\* ------------------------------------------------ EngineSpec: filter_data

Leaves ==
    {PyNone, PyStr(""), PyStr("  "), PyStr("x"), PyInt(0), L(<<>>), D(<<>>),
     L(<<PyStr("a"), PyStr(""), PyStr("b")>>)}

\* the trees of T, and a mapping or a list around each of them
Grow(T) ==
    T \cup {D(<<<<"tags", t>>>>) : t \in T}
      \cup {D(<<<<"id", PyInt(1)>>, <<"tags", t>>>>) : t \in T}
      \cup {L(<<t>>) : t \in T}
      \cup {L(<<t, PyStr("x")>>) : t \in T}

RECURSIVE Trees(_)
\* the trees nested at most n deep
Trees(n) == IF n = 0 THEN Leaves ELSE Grow(Trees(n - 1))

\* configurations of field selection and empty-field removal
EngineConfigs ==
    {[FilterConfig EXCEPT !.remove_empty = remove_empty,
                          !.include_fields = include_fields,
                          !.exclude_fields = exclude_fields,
                          !.max_array_items = max_array_items] :
       remove_empty \in {PyBool(FALSE), PyBool(TRUE)},
       max_array_items \in {PyNone, PyInt(1), PyInt(2)},
       include_fields \in {PyNone, L(<<>>), L(<<PyStr("id")>>),
                           L(<<PyStr("id"), PyStr("tags")>>)},
       exclude_fields \in {PyNone, L(<<PyStr("tags")>>)}}

EngineInit ==
    /\ pc = "call"
    /\ \E t \in Trees(MaxDepth) : data = Alloc(t, <<"data">>)
    /\ config \in EngineConfigs
    /\ result = PyNone /\ again = PyNone
    /\ response = PyNone /\ mcp_filter = PyNone /\ given = PyNone /\ journals = PyNone
    /\ classified = <<>>
    /\ calls = <<>> /\ frames = <<>> /\ tables = PatternTables

\* result = filter_data(data, config)
FilterData ==
    /\ pc = "call"
    /\ result' = filter_data(data, config)
    /\ classified' = classified_data(data, config)
    /\ pc' = "filtered"
    /\ UNCHANGED <<calls, frames, tables, response, mcp_filter, given, data, config, again, journals>>

\* again = filter_data(result, config)
FilterAgain ==
    /\ pc = "filtered"
    /\ again' = filter_data(result, config)
    /\ classified' = classified \o classified_data(result, config)
    /\ pc' = "refiltered"
    /\ UNCHANGED <<calls, frames, tables, response, mcp_filter, given, result, data, config, journals>>

\* result = remove_empty_fields(data)
RemoveEmptyFields ==
    /\ pc = "call"
    /\ result' = remove_empty_fields(data)
    /\ pc' = "cleaned"
    /\ UNCHANGED <<calls, frames, tables, response, mcp_filter, given, data, config, again, journals, classified>>

EngineNext == FilterData \/ FilterAgain \/ RemoveEmptyFields

EngineSpec == EngineInit /\ [][EngineNext]_vars

\* ------------------------------- SelectionSpec: filter_data on journals

\* the keys filter_dict treats in a way of their own, each with the
\* configurations that bear on it.
\* journals: the key at the top, under a wrapper key, and in the items of a
\* list, its entries being one the classifier accepts, one it rejects and
\* one without notes; field selection and the journal policy.
\* description, notes, text: strings around the limit, and values that are
\* no strings; the limit and remove_empty.
\* custom_fields: lists of fields with and without a name, at the top and
\* under a wrapper key, and a value that is no list; the custom field
\* options and field selection.
\* The journals and custom fields once more, their texts longer than the
\* limit: the limit together with the journal policy and the kept fields.
SelectionInit ==
    LET SelectionEntries ==
          {D(<<<<"id", PyInt(1)>>, <<"notes", PyStr(GerritNote)>>,
               <<"details", ReviewDetails>>>>),
           D(<<<<"id", PyInt(2)>>, <<"notes", PyStr(StatusNote)>>,
               <<"details", StatusDetails>>>>),
           D(<<<<"id", PyInt(3)>>, <<"details", ReviewDetails>>>>)}
        SelectionData ==
          UNION {{D(<<<<"id", PyInt(1)>>, <<"journals", L(e)>>>>),
                  D(<<<<"issue", D(<<<<"id", PyInt(1)>>, <<"journals", L(e)>>,
                                     <<"notes", PyStr(ReviewNote)>>>>)>>>>),
                  D(<<<<"issues", L(<<D(<<<<"journals", L(e)>>>>),
                                      D(<<<<"id", PyInt(2)>>>>)>>)>>>>)} :
                 e \in UNION {[1..len -> SelectionEntries] : len \in 0..MaxJournals}}
        SelectionConfigs ==
          {[FilterConfig EXCEPT !.remove_empty = remove_empty,
                                !.include_fields = include_fields,
                                !.exclude_fields = exclude_fields,
                                !.max_array_items = max_array_items,
                                !.journals = journals_config] :
             remove_empty \in {PyBool(FALSE), PyBool(TRUE)},
             max_array_items \in {PyNone, PyInt(1)},
             include_fields \in {PyNone, L(<<>>), L(<<PyStr("id")>>),
                                 L(<<PyStr("id"), PyStr("journals")>>),
                                 L(<<PyStr("journals"), PyStr("notes")>>)},
             exclude_fields \in {PyNone, L(<<PyStr("journals")>>), L(<<PyStr("id")>>)},
             journals_config \in {PyNone, JournalFilterConfig(PyBool(TRUE)),
                                  JournalFilterConfig(PyBool(FALSE))}}
        Texts ==
          {PyStr(SubSeq("abcdefgh", 1, n)) : n \in 0..(MaxLength + 2)}
            \cup {PyStr("  "), PyInt(12345), PyNone, L(<<PyStr("abcdefgh")>>)}
        TextData ==
          UNION {{D(<<<<key, v>>>>),
                  D(<<<<"issue", D(<<<<"id", PyInt(1)>>, <<key, v>>>>)>>>>),
                  L(<<D(<<<<key, v>>, <<"title", v>>>>)>>)} :
                 key \in {"description", "notes", "text", "subject"}, v \in Texts}
        TextConfigs ==
          {[FilterConfig EXCEPT !.remove_empty = remove_empty,
                                !.max_description_length = max_description_length] :
             remove_empty \in {PyBool(FALSE), PyBool(TRUE)},
             max_description_length \in {PyNone} \cup {PyInt(n) : n \in 1..MaxLength}}
        Fields ==
          {D(<<<<"id", PyInt(1)>>, <<"name", PyStr("Build")>>, <<"value", PyStr("v1.0")>>>>),
           D(<<<<"id", PyInt(2)>>, <<"name", PyStr("Contact")>>, <<"value", PyStr("")>>>>),
           D(<<<<"id", PyInt(3)>>, <<"value", PyStr("John")>>>>)}
        FieldData ==
          UNION {{D(<<<<"id", PyInt(1)>>, <<"custom_fields", L(e)>>>>),
                  D(<<<<"issue", D(<<<<"custom_fields", L(e)>>, <<"id", PyInt(1)>>>>)>>>>)} :
                 e \in UNION {[1..len -> Fields] : len \in 0..MaxFields}}
            \cup {D(<<<<"id", PyInt(1)>>, <<"custom_fields", PyStr("Build")>>>>)}
        FieldConfigs ==
          {[FilterConfig EXCEPT !.remove_empty = remove_empty,
                                !.include_fields = include_fields,
                                !.exclude_fields = exclude_fields,
                                !.remove_custom_fields = remove_custom_fields,
                                !.keep_custom_fields = keep_custom_fields] :
             remove_empty \in {PyBool(FALSE), PyBool(TRUE)},
             include_fields \in {PyNone, L(<<PyStr("id")>>), L(<<PyStr("custom_fields")>>)},
             exclude_fields \in {PyNone, L(<<PyStr("custom_fields")>>)},
             remove_custom_fields \in {PyBool(FALSE), PyBool(TRUE)},
             keep_custom_fields \in {PyNone, L(<<>>), L(<<PyStr("Build")>>),
                                     L(<<PyStr("Contact"), PyStr("Build")>>),
                                     L(<<PyStr("Owner")>>)}}
        LimitedData ==
          SelectionData
            \cup {D(<<<<"custom_fields",
                       L(<<D(<<<<"name", PyStr("Build")>>,
                               <<"description", PyStr(LongText)>>>>)>>)>>,
                     <<"description", PyStr(LongText)>>>>)}
        LimitedConfigs ==
          {[FilterConfig EXCEPT !.max_description_length = PyInt(MaxLength),
                                !.keep_custom_fields = keep_custom_fields,
                                !.journals = journals_config] :
             keep_custom_fields \in {PyNone, L(<<PyStr("Build")>>)},
             journals_config \in {PyNone, JournalFilterConfig(PyBool(TRUE)),
                                  JournalFilterConfig(PyBool(FALSE))}}
    IN  /\ pc = "call"
        /\ \E case \in (SelectionData \X SelectionConfigs) \cup (TextData \X TextConfigs)
                         \cup (FieldData \X FieldConfigs)
                         \cup (LimitedData \X LimitedConfigs) :
             /\ data = Alloc(case[1], <<"data">>)
             /\ config = case[2]
        /\ result = PyNone /\ again = PyNone
        /\ response = PyNone /\ mcp_filter = PyNone /\ given = PyNone
        /\ journals = PyNone
        /\ classified = <<>>
        /\ calls = <<>> /\ frames = <<>> /\ tables = PatternTables

SelectionNext == FilterData

SelectionSpec == SelectionInit /\ [][SelectionNext]_vars

\* -------------------------------------------- JournalSpec: filter_journals

JournalEntries ==
    {D(<<<<"id", PyInt(1)>>, <<"notes", PyStr(GerritNote)>>, <<"details", ReviewDetails>>>>),
     D(<<<<"id", PyInt(2)>>, <<"notes", PyStr(StatusNote)>>, <<"details", StatusDetails>>>>),
     D(<<<<"id", PyInt(3)>>, <<"details", ReviewDetails>>>>),
     D(<<<<"id", PyInt(4)>>, <<"notes", PyStr(ReviewNote)>>>>),
     D(<<<<"id", PyInt(5)>>, <<"notes", PyNone>>, <<"details", ReviewDetails>>>>),
     D(<<<<"id", PyInt(6)>>, <<"notes", PyStr("   ")>>, <<"details", ReviewDetails>>>>),
     D(<<<<"id", PyInt(7)>>, <<"notes", PyInt(5)>>, <<"details", ReviewDetails>>>>),
     PyStr("not a journal"),
     PyNone}

\* the lists of at most n entries
JournalLists(n) == UNION {[1..len -> JournalEntries] : len \in 0..n}

JournalInit ==
    /\ pc = "call"
    /\ \E e \in JournalLists(MaxJournals) : journals = Alloc(L(e), <<"journals">>)
    /\ config \in {JournalFilterConfig(PyBool(TRUE)), JournalFilterConfig(PyBool(FALSE))}
    /\ result = PyNone /\ again = PyNone /\ data = PyNone
    /\ response = PyNone /\ mcp_filter = PyNone /\ given = PyNone
    /\ classified = <<>>
    /\ calls = <<>> /\ frames = <<>> /\ tables = PatternTables

\* result = filter_journals(journals, config)
FilterJournals ==
    /\ pc = "call"
    /\ result' = filter_journals(journals, config)
    /\ classified' = journals_classified(journals, config)
    /\ pc' = "filtered"
    /\ UNCHANGED <<calls, frames, tables, response, mcp_filter, given, data, config, again, journals>>

\* result = processor.should_include_journal(journals[0]), the detector
\* being the processor's own or one that raises
ShouldIncludeJournal ==
    /\ pc = "call"
    /\ Len(journals.e) > 0
    /\ \E side_effect \in {PyNone} \cup {Raise(x) : x \in MatchingErrors
                                          \cup {"ValueError", "Exception"}} :
         /\ given' = [journal_entry |-> journals.e[1], side_effect |-> side_effect]
         /\ result' = should_include_journal(
                          detector_is_code_review_entry(journals.e[1], side_effect))
    /\ pc' = "should_include_journal"
    /\ UNCHANGED <<calls, frames, tables, response, mcp_filter, data, config, again,
                   journals, classified>>

JournalNext == FilterJournals \/ ShouldIncludeJournal

JournalSpec == JournalInit /\ [][JournalNext]_vars

\* ------------------------------------ ClassifierSpec: GerritPatternMatcher

\* texts put together of fragments, each matching the patterns of one group
\* or of none, or a keyword; and values that are no text
ClassifierInit ==
    LET Fragments ==
          <<"*Gerrit change* submitted", "Gerrit change and GERRIT REVIEW",
            "see /r/c/12345", "http://gerrit.example/r/c/1/2", "Issue #12: fixed",
            "*\"(Gerrit review)\":http://gerrit.example/x*", "*Change* done",
            "reviewed again while reviewing", "approved", "the PR", "Status changed",
            "Commit: abc123def456789012345678901234567890abcd only",
            "http://gerrit.example.com/r/c/12345">>
        Joined(f) ==
          IF Len(f) = 0 THEN ""
          ELSE IF Len(f) = 1 THEN Fragments[f[1]]
          ELSE IF Len(f) = 2 THEN Fragments[f[1]] \o " " \o Fragments[f[2]]
          ELSE Fragments[f[1]] \o " " \o Fragments[f[2]] \o "\n" \o Fragments[f[3]]
        Choices == UNION {[1..len -> 1..Len(Fragments)] : len \in 0..MaxFragments}
    IN  /\ pc = "call"
        /\ data \in {PyStr(Joined(f)) : f \in Choices}
                      \cup {PyNone, PyInt(5), PyBool(TRUE), L(<<PyStr("Gerrit review /r/c/1")>>),
                            D(<<<<"notes", PyStr("*Gerrit change* submitted")>>>>)}
        /\ result = PyNone /\ again = PyNone /\ config = PyNone
        /\ response = PyNone /\ mcp_filter = PyNone /\ given = PyNone
        /\ journals = PyNone
        /\ classified = <<>>
        /\ calls = <<>> /\ frames = <<>> /\ tables = PatternTables

\* result = matcher.is_gerrit_entry(data)
IsGerritEntry ==
    /\ pc = "call"
    /\ result' = PyBool(is_gerrit_entry(data))
    /\ pc' = "is_gerrit_entry"
    /\ UNCHANGED <<calls, frames, tables, response, mcp_filter, given, data, config, again, journals, classified>>

\* result = matcher.contains_code_review_patterns(data)
ContainsCodeReviewPatterns ==
    /\ pc = "call"
    /\ result' = PyBool(contains_code_review_patterns(data))
    /\ pc' = "contains_code_review_patterns"
    /\ UNCHANGED <<calls, frames, tables, response, mcp_filter, given, data, config, again, journals, classified>>

ClassifierNext == IsGerritEntry \/ ContainsCodeReviewPatterns

ClassifierSpec == ClassifierInit /\ [][ClassifierNext]_vars

\* ------------------- ConcurrentSpec: interleaved apply_response_filter

\* the two calls
Calls == {1, 2}

\* one variable of the module for every call, where the code has locals
shared_frame(c) == 1

\* the activation of call c: filtered_response is a local variable of it
frame(c) == c

\* calls, with call c at position at, its result ret and the objects wrote
\* added to those it has written
Moved(c, at, ret, wrote) ==
    [d \in Calls |->
       IF d = c
       THEN [response |-> calls[c].response, mcp_filter |-> calls[c].mcp_filter,
             pc |-> at, result |-> ret, written |-> calls[c].written \cup wrote]
       ELSE calls[d]]

\* frames, with filtered_response of call c bound to value
Stored(c, value) == [f \in Calls |-> IF f = frame(c) THEN value ELSE frames[f]]

ConcurrentInit ==
    LET ConcurrentEnvelopes ==
          {D(<<<<"status_code", PyInt(200)>>, <<"body", IssueBody>>, <<"error", PyStr("")>>>>),
           D(<<<<"status_code", PyInt(200)>>, <<"body", IssuesBody>>, <<"error", PyStr("")>>>>),
           D(<<<<"status_code", PyInt(200)>>, <<"body", MalformedBody>>>>),
           D(<<<<"status_code", PyInt(404)>>, <<"body", D(<<>>)>>,
               <<"error", PyStr("HTTPError: 404 Not Found")>>>>)}
        ConcurrentOptions ==
          {D(<<<<"remove_empty", PyBool(TRUE)>>,
               <<"journals", D(<<<<"code_review_only", PyBool(TRUE)>>>>)>>,
               <<"max_description_length", PyInt(10)>>>>),
           D(<<<<"keep_custom_fields", L(<<PyStr("a")>>)>>,
               <<"exclude_fields", L(<<PyStr("journals")>>)>>>>),
           D(<<<<"include_fields", PyStr("id")>>>>),
           PyNone}
        started(c, e, f) ==
          [response |-> Alloc(e, <<"response", ToString(c)>>),
           mcp_filter |-> Alloc(f, <<"mcp_filter", ToString(c)>>),
           pc |-> "call", result |-> PyNone, written |-> {}]
    IN  /\ \E e \in [Calls -> ConcurrentEnvelopes], f \in [Calls -> ConcurrentOptions] :
             calls = [c \in Calls |-> started(c, e[c], f[c])]
        /\ frames = [f \in Calls |-> PyNone]
        /\ tables = PatternTables
        /\ pc = "concurrent"
        /\ result = PyNone /\ again = PyNone /\ data = PyNone /\ config = PyNone
        /\ response = PyNone /\ mcp_filter = PyNone /\ given = PyNone
        /\ journals = PyNone
        /\ classified = <<>>

\* lines 110-114 of call c: the pass-through test, then copy.deepcopy
Enter(c) ==
    /\ calls[c].pc = "call"
    /\ LET copied(filtered_response) ==
             IF IsRaise(filtered_response)
             THEN calls' = Moved(c, "returned", filtered_response, {})
                  /\ UNCHANGED frames
             ELSE calls' = Moved(c, "validate", PyNone, {})
                  /\ frames' = Stored(c, filtered_response)
       IN  IF ~IsDict(calls[c].response)
           THEN calls' = Moved(c, "returned", Raise("AttributeError"), {})
                /\ UNCHANGED frames
           ELSE IF is_error_response(calls[c].response)
           THEN calls' = Moved(c, "returned", calls[c].response, {})
                /\ UNCHANGED frames
           ELSE copied(deepcopy(calls[c].response))
    /\ UNCHANGED <<tables, pc, response, mcp_filter, given, result, data, config,
                   again, journals, classified>>

\* lines 118-123 of call c: the validation, and the marker after errors
Validate(c) ==
    /\ calls[c].pc = "validate"
    /\ LET validated(validation_errors, filtered_response) ==
             IF IsRaise(validation_errors)
             THEN IF HandlesException(validation_errors.x)
                  THEN calls' = Moved(c, "returned", calls[c].response, {})
                  ELSE calls' = Moved(c, "returned", validation_errors, {})
             ELSE IF Truthy(validation_errors)
             THEN calls' = Moved(c, "returned",
                                 SetItem(filtered_response, "mcp_filtered", PyBool(TRUE)),
                                 {filtered_response.o})
             ELSE calls' = Moved(c, "filter", PyNone, {})
           stored(validation_errors, filtered_response) ==
             IF ~IsRaise(validation_errors) /\ Truthy(validation_errors)
             THEN frames' = Stored(c, SetItem(filtered_response, "mcp_filtered",
                                              PyBool(TRUE)))
             ELSE UNCHANGED frames
           step(validation_errors) ==
             /\ validated(validation_errors, frames[frame(c)])
             /\ stored(validation_errors, frames[frame(c)])
       IN  step(validate_filter_config(calls[c].mcp_filter))
    /\ UNCHANGED <<tables, pc, response, mcp_filter, given, result, data, config,
                   again, journals, classified>>

\* lines 125-150 of call c: the configuration, and the body replaced by its
\* filtered form
FilterBody(c) ==
    /\ calls[c].pc = "filter"
    /\ LET failed(exception) ==
             /\ IF HandlesException(exception.x)
                THEN calls' = Moved(c, "returned", calls[c].response, {})
                ELSE calls' = Moved(c, "returned", exception, {})
             /\ UNCHANGED frames
           replaced(filtered_response, filtered_body) ==
             IF IsRaise(filtered_body) THEN failed(filtered_body)
             ELSE /\ calls' = Moved(c, "mark", PyNone, {filtered_response.o})
                  /\ frames' = Stored(c, SetItem(filtered_response, "body", filtered_body))
           parsed(filtered_response, parsed_config) ==
             IF IsRaise(parsed_config) THEN failed(parsed_config)
             ELSE IF ~Truthy(Get(filtered_response, "body", PyNone))
             THEN calls' = Moved(c, "mark", PyNone, {}) /\ UNCHANGED frames
             ELSE replaced(filtered_response,
                           filter_data(Get(filtered_response, "body", PyNone),
                                       parsed_config))
       IN  parsed(frames[frame(c)], parse_filter_config(calls[c].mcp_filter))
    /\ UNCHANGED <<tables, pc, response, mcp_filter, given, result, data, config,
                   again, journals, classified>>

\* lines 152-155 of call c: the marker, and the return of the copy
Mark(c) ==
    /\ calls[c].pc = "mark"
    /\ LET mark(filtered_response) ==
             /\ calls' = Moved(c, "returned",
                               SetItem(filtered_response, "mcp_filtered", PyBool(TRUE)),
                               {filtered_response.o})
             /\ frames' = Stored(c, SetItem(filtered_response, "mcp_filtered",
                                            PyBool(TRUE)))
       IN  mark(frames[frame(c)])
    /\ UNCHANGED <<tables, pc, response, mcp_filter, given, result, data, config,
                   again, journals, classified>>

ConcurrentNext == \E c \in Calls : Enter(c) \/ Validate(c) \/ FilterBody(c) \/ Mark(c)

ConcurrentSpec == ConcurrentInit /\ [][ConcurrentNext]_vars

\* ------------------------------------- properties of apply_response_filter

\* the envelope is one the filter passes through: its status code is not
\* 200, or its error is not empty
ErrorEnvelope(envelope) ==
    \/ ~HasKey(envelope, "status_code")
    \/ Get(envelope, "status_code", PyNone) # PyInt(200)
    \/ /\ HasKey(envelope, "error")
       /\ Get(envelope, "error", PyNone) \notin {PyNone, PyStr("")}

\* the body of an envelope, null when it has none
BodyOf(envelope) == Get(envelope, "body", PyNone)

\* the envelope carries the marker mcp_filtered = true
Marked(envelope) == IsDict(envelope) /\ Get(envelope, "mcp_filtered", PyNone) = PyBool(TRUE)

\* C1: an envelope whose status code is not 200 or whose error is not empty
\* comes back as it was given, whatever the options: the same envelope,
\* without the marker, its body as given, and the caller's object untouched.
C1_PassThrough ==
    (pc = "returned" /\ ErrorEnvelope(given.response))
      => /\ result = given.response
         /\ response = given.response
         /\ ~HasKey(result, "mcp_filtered")
         /\ BodyOf(result) = BodyOf(given.response)

\* an error envelope with a body the options would have changed was returned
C1_Witness ==
    /\ pc = "returned"
    /\ Get(given.response, "status_code", PyNone) = PyInt(200)
    /\ Truthy(Get(given.response, "error", PyStr("")))
    /\ Val(BodyOf(given.response)) = IssueBody
    /\ Val(given.mcp_filter) = D(<<<<"remove_empty", PyBool(TRUE)>>>>)
    /\ result = given.response

\* an exception is raised while validating the options, building the
\* configuration or walking the body
Fails(envelope, options) ==
    \/ IsRaise(validate_filter_config(options))
    \/ /\ ~Truthy(validate_filter_config(options))
       /\ \/ IsRaise(parse_filter_config(options))
          \/ /\ Truthy(BodyOf(envelope))
             /\ IsRaise(filter_data(BodyOf(envelope), parse_filter_config(options)))

\* C2: when an exception is raised while the options of a 200/no-error
\* envelope are validated, the configuration is built or the body is walked,
\* the original envelope comes back: equal to the input, unmarked, its body
\* as given.
C2_Fallback ==
    (/\ pc = "returned"
     /\ ~ErrorEnvelope(given.response)
     /\ Depth(given.response) <= RecursionLimit
     /\ Fails(given.response, given.mcp_filter))
      => /\ result = given.response
         /\ response = given.response
         /\ ~HasKey(result, "mcp_filtered")

\* the walk of the body raised (a custom field that is no mapping) after
\* the options were validated and parsed, and the original came back
C2_Witness ==
    /\ pc = "returned"
    /\ ~ErrorEnvelope(given.response)
    /\ ~Truthy(validate_filter_config(given.mcp_filter))
    /\ ~IsRaise(parse_filter_config(given.mcp_filter))
    /\ IsRaise(filter_data(BodyOf(given.response), parse_filter_config(given.mcp_filter)))
    /\ result = given.response

\* validate_filter_config reports at least one error for the options
Invalid(options) ==
    ~IsRaise(validate_filter_config(options)) /\ Truthy(validate_filter_config(options))

\* C3: when validate_filter_config reports an error for the options of a
\* 200/no-error envelope, the envelope returned is marked mcp_filtered = true
\* and is otherwise equal to the input: its body is the input body.
C3_ValidationErrors ==
    (/\ pc = "returned"
     /\ ~ErrorEnvelope(given.response)
     /\ Depth(given.response) <= RecursionLimit
     /\ Invalid(given.mcp_filter))
      => /\ Marked(result)
         /\ Val(BodyOf(result)) = Val(BodyOf(given.response))
         /\ Val(Pop(result, "mcp_filtered")) = Val(given.response)

\* options with one invalid entry and one valid entry that would have
\* changed the body: the body came back whole under the marker
C3_Witness ==
    /\ pc = "returned"
    /\ Val(given.mcp_filter) = D(<<<<"remove_empty", PyBool(TRUE)>>,
                                   <<"journals", PyStr("invalid_config")>>>>)
    /\ Val(BodyOf(given.response)) = IssueBody
    /\ Marked(result)
    /\ Val(BodyOf(result)) = IssueBody
    /\ Val(remove_empty_fields(IssueBody)) # IssueBody

\* C4: apply_response_filter raises no exception, whatever the envelope and
\* the options.
C4_Totality ==
    pc = "returned" => ~IsRaise(result)

\* C5: the call leaves the envelope and the options it is given as they
\* were, on every path; and after the filtered path, a write to any list or
\* mapping of the result leaves them as they were too.
C5_NoInputMutation ==
    /\ pc = "returned" => (response = given.response /\ mcp_filter = given.mcp_filter)
    /\ (pc = "written" /\ Marked(result))
         => (response = given.response /\ mcp_filter = given.mcp_filter)

\* the caller wrote to the custom fields kept in a filtered result, and the
\* custom fields of its own envelope stayed as they were
C5_Witness ==
    /\ pc = "written"
    /\ Marked(result)
    /\ Val(given.mcp_filter) = D(<<<<"keep_custom_fields", L(<<PyStr("a")>>)>>>>)
    /\ Val(BodyOf(given.response)) = IssueBody
    /\ HasKey(Get(BodyOf(result), "issue", PyNone), "custom_fields")
    /\ HasKey(Get(Get(BodyOf(result), "issue", PyNone), "custom_fields", PyNone).e[1],
              "written")
    /\ response = given.response

\* the options hold a journal policy that is disabled: journals is
\* {code_review_only: false} or {}
DisabledPolicy(options) ==
    /\ IsDict(options)
    /\ HasKey(options, "journals")
    /\ Val(Get(options, "journals", PyNone))
         \in {D(<<>>), D(<<<<"code_review_only", PyBool(FALSE)>>>>)}

\* C11: with journals = {code_review_only: false} or journals = {}, the call
\* returns what the same options without the journals option return, for
\* every envelope and every set of other options.
C11_DisabledNoOp ==
    (pc = "returned" /\ DisabledPolicy(given.mcp_filter))
      => Val(result) =
           Val(apply_response_filter(given.response, Pop(given.mcp_filter, "journals")).ret)

\* the options among the eight that the mapping holds with a value of the
\* wrong form
MalformedOptions(options) ==
    LET v(key) == Get(options, key, PyNone)
        PositiveInt(x) == IsInt(x) /\ IntOf(x) > 0
        StringList(x) == IsList(x) /\ \A i \in 1..Len(x.e) : IsStr(x.e[i])
        JournalOptions(x) ==
          /\ IsDict(x)
          /\ \A i \in 1..Len(x.m) : x.m[i][1] = "code_review_only" /\ IsBool(x.m[i][2])
        WellFormed(key) ==
          CASE key = "journals" -> JournalOptions(v(key))
            [] key \in {"max_description_length", "max_array_items"} -> PositiveInt(v(key))
            [] key \in {"include_fields", "exclude_fields", "keep_custom_fields"} ->
                 StringList(v(key))
            [] OTHER -> IsBool(v(key))
    IN  {key \in {"journals", "max_description_length", "max_array_items",
                  "include_fields", "exclude_fields", "keep_custom_fields",
                  "remove_empty", "remove_custom_fields"} :
           HasKey(options, key) /\ ~WellFormed(key)}

\* C19: for options that are a mapping, validate_filter_config returns a
\* list of messages with at least one message for every malformed option
\* among the eight, so at least k messages for k malformed options, and
\* the empty list when none is malformed.
C19_CollectsAll ==
    (pc = "validated" /\ IsDict(mcp_filter))
      => /\ IsList(result)
         /\ \A i \in 1..Len(result.e) : IsStr(result.e[i])
         /\ Len(result.e) >= Cardinality(MalformedOptions(mcp_filter))
         /\ MalformedOptions(mcp_filter) = {} => Len(result.e) = 0
         /\ \A key \in MalformedOptions(mcp_filter) \ {"journals"} :
              \E i \in 1..Len(result.e) : StartsAt(result.e[i].s, key, 1)

\* all eight options are malformed and eight messages came back
C19_Witness ==
    /\ pc = "validated"
    /\ IsDict(mcp_filter)
    /\ Cardinality(MalformedOptions(mcp_filter)) = 8
    /\ Len(result.e) = 8

\* the keys of the journals object of the options that are no valid option
UnknownJournalKeys(options) ==
    IF HasKey(options, "journals") /\ IsDict(Get(options, "journals", PyNone))
    THEN {Get(options, "journals", PyNone).m[i][1] :
            i \in 1..Len(Get(options, "journals", PyNone).m)} \ {"code_review_only"}
    ELSE {}

\* the keys of the options that are none of the eight recognized ones
UnknownKeys(options) == {options.m[i][1] : i \in 1..Len(options.m)} \ ValidatedKeys

\* the options without the keys that are none of the eight recognized ones
Recognized(options) ==
    PyDict(options.o, SelectSeq(options.m, LAMBDA item : item[1] \in ValidatedKeys))

C28_WitnessJournals ==
    /\ pc = "validated"
    /\ IsDict(mcp_filter)
    /\ UnknownJournalKeys(mcp_filter) = {"unknown"}
    /\ Val(result) = L(<<PyStr("Invalid journal filter option: unknown")>>)

\* ----------------------------------------------- properties of filter_data

\* the configuration sets remove_empty = true and nothing else
RemoveEmptyOnly(c) == c = [FilterConfig EXCEPT !.remove_empty = PyBool(TRUE)]

\* C6: with the configuration that sets only remove_empty = true, filtering
\* the result once more gives the result again.
C6_Idempotent ==
    (pc = "refiltered" /\ RemoveEmptyOnly(config)) => Val(again) = Val(result)

\* null, a blank or whitespace-only string, an empty list or an empty mapping
EmptyValue(v) ==
    \/ IsNull(v)
    \/ IsStr(v) /\ IsBlank(v.s)
    \/ IsList(v) /\ Len(v.e) = 0
    \/ IsDict(v) /\ Len(v.m) = 0

RECURSIVE NoEmptyField(_)
\* no mapping of v, at any depth, has a key whose value is empty
NoEmptyField(v) ==
    CASE IsDict(v) ->
           \A i \in 1..Len(v.m) : ~EmptyValue(v.m[i][2]) /\ NoEmptyField(v.m[i][2])
      [] IsList(v) -> \A i \in 1..Len(v.e) : NoEmptyField(v.e[i])
      [] OTHER -> TRUE

\* C7: the result of remove_empty_fields(data) has no mapping, at any depth,
\* with a key whose value is null, a blank string, an empty list or an empty
\* mapping.
C7_NoEmptyField ==
    pc = "cleaned" => NoEmptyField(result)

\* the filtered elements of the list, in their order, without the empty
\* ones when remove_empty is set
KeptItems(list, c) ==
    LET filtered == [i \in 1..Len(list.e) |-> Val(filter_data(list.e[i], c))]
        Stays(v) == ~(Truthy(c.remove_empty) /\ EmptyValue(v))
    IN  SelectSeq(filtered, Stays)

\* the first n members of the sequence, the whole of it when it has fewer
FirstItems(seq, n) == SubSeq(seq, 1, IF Len(seq) < n THEN Len(seq) ELSE n)

RECURSIVE ListsBounded(_, _)
\* no list of v, at any depth, has more than n elements
ListsBounded(v, n) ==
    CASE IsDict(v) -> \A i \in 1..Len(v.m) : ListsBounded(v.m[i][2], n)
      [] IsList(v) -> Len(v.e) <= n /\ \A i \in 1..Len(v.e) : ListsBounded(v.e[i], n)
      [] OTHER -> TRUE

\* C13: with max_array_items = N, the result for a list has at most N
\* elements and is the first N elements, in their order, of the sequence of
\* the filtered elements, without those that are empty after filtering when
\* remove_empty is set; and no list of the result, at any depth, has more
\* than N elements.
C13_ArrayBound ==
    (pc = "filtered" /\ IsInt(config.max_array_items))
      => /\ ListsBounded(result, IntOf(config.max_array_items))
         /\ IsList(data)
              => /\ Len(result.e) <= IntOf(config.max_array_items)
                 /\ Val(result).e
                     = FirstItems(KeptItems(data, config), IntOf(config.max_array_items))

\* a list of three under the limit 2 and remove_empty: the empty second
\* element does not count, the first and the third came back
C13_Witness ==
    /\ pc = "filtered"
    /\ config.max_array_items = PyInt(2)
    /\ config.remove_empty = PyBool(TRUE)
    /\ Val(data) = L(<<L(<<PyStr("a"), PyStr(""), PyStr("b")>>), PyStr("x")>>)
    /\ Val(result) = L(<<L(<<PyStr("a"), PyStr("b")>>), PyStr("x")>>)

\* the keys of the mapping d that both lists name
ListedInBoth(d, c) ==
    {d.m[i][1] : i \in {i \in 1..Len(d.m) :
                          /\ InList(PyStr(d.m[i][1]), c.include_fields)
                          /\ InList(PyStr(d.m[i][1]), c.exclude_fields)}}

\* the result is the one the same configuration without its exclude_fields
\* gives, and it holds every key of data that both lists name (unless
\* remove_empty took it)
ExcludeIgnored ==
    /\ Val(result) = Val(filter_data(data, [config EXCEPT !.exclude_fields = PyNone]))
    /\ (IsDict(data) /\ IsList(config.exclude_fields))
         => \A key \in ListedInBoth(data, config) :
              \/ HasKey(result, key)
              \/ Truthy(config.remove_empty) /\ EmptyValue(Get(data, key, PyNone))

\* C8, as stated: whenever include_fields is present, a list of any length,
\* exclude_fields is ignored entirely.
C8_AnyIncludeList ==
    (pc = "filtered" /\ IsList(config.include_fields)) => ExcludeIgnored

\* C8: whenever include_fields is a list that is not empty, exclude_fields
\* is ignored entirely: no key is dropped for being listed in it, and a key
\* listed in both is retained.
C8_Precedence ==
    (pc = "filtered" /\ IsList(config.include_fields) /\ Len(config.include_fields.e) > 0)
      => ExcludeIgnored

\* a key listed in both include_fields and exclude_fields was retained
C8_Witness ==
    /\ pc = "filtered"
    /\ Val(config.include_fields) = L(<<PyStr("id"), PyStr("tags")>>)
    /\ Val(config.exclude_fields) = L(<<PyStr("tags")>>)
    /\ Val(data) = D(<<<<"id", PyInt(1)>>, <<"tags", PyStr("x")>>>>)
    /\ Val(result) = Val(data)

\* field selection drops the key: a set include_fields does not name it and
\* it is no wrapper key, or include_fields is not set and exclude_fields
\* names it
SelectionDrops(c, key) ==
    LET Set(list) == IsList(list) /\ Len(list.e) > 0
        Names(list) == \E i \in 1..Len(list.e) : list.e[i] = PyStr(key)
    IN  IF Set(c.include_fields)
        THEN key \notin {"issue", "issues", "projects", "users", "time_entries"}
             /\ ~Names(c.include_fields)
        ELSE Set(c.exclude_fields) /\ Names(c.exclude_fields)

RECURSIVE HasKeyAnywhere(_, _)
\* some mapping of v, at any depth, has the key
HasKeyAnywhere(v, key) ==
    CASE IsDict(v) ->
           \E i \in 1..Len(v.m) : v.m[i][1] = key \/ HasKeyAnywhere(v.m[i][2], key)
      [] IsList(v) -> \E i \in 1..Len(v.e) : HasKeyAnywhere(v.e[i], key)
      [] OTHER -> FALSE

\* C12: the journal policy is applied to a journals key only after the key
\* survived field selection. When field selection drops journals (it is
\* named by exclude_fields, or is not in a set include_fields), no mapping of
\* the output has the key and the classifier was handed no notes; the
\* classifier is handed notes only when journals survives and a policy is
\* enabled, and a surviving journals list is then the processor's output.
C12_SelectionFirst ==
    pc = "filtered" =>
      /\ SelectionDrops(config, "journals")
           => (~HasKeyAnywhere(result, "journals") /\ classified = <<>>)
      /\ classified # <<>>
           => /\ ~SelectionDrops(config, "journals")
              /\ config.journals = JournalFilterConfig(PyBool(TRUE))
      /\ (/\ ~SelectionDrops(config, "journals")
          /\ config.journals = JournalFilterConfig(PyBool(TRUE))
          /\ HasKey(data, "journals")
          /\ HasKey(result, "journals"))
           => /\ Val(Get(result, "journals", PyNone))
                  = Val(filter_journals(Get(data, "journals", PyNone), config.journals))
              /\ classified
                  = journals_classified(Get(data, "journals", PyNone), config.journals)

\* journals held notes the classifier accepts and a policy was enabled, but
\* exclude_fields named journals: the key is gone and nothing was classified
C12_Witness ==
    /\ pc = "filtered"
    /\ config.journals = JournalFilterConfig(PyBool(TRUE))
    /\ config.include_fields = PyNone
    /\ Val(config.exclude_fields) = L(<<PyStr("journals")>>)
    /\ HasKey(data, "journals")
    /\ Len(Get(data, "journals", PyNone).e) > 0
    /\ Val(Get(Get(data, "journals", PyNone).e[1], "notes", PyNone)) = PyStr(GerritNote)
    /\ ~HasKey(result, "journals")
    /\ HasKey(result, "id")
    /\ classified = <<>>

RECURSIVE Shortened(_, _)
\* v with every string under a key description, notes or text that is longer
\* than n replaced by its first n characters and the marker
Shortened(v, n) ==
    LET Short(key, x) ==
          IF key \in {"description", "notes", "text"} /\ IsStr(x)
          THEN (IF Len(x.s) > n
                THEN PyStr(SubSeq(x.s, 1, n) \o "... [truncated]")
                ELSE x)
          ELSE Shortened(x, n)
    IN  CASE IsDict(v) -> D([i \in 1..Len(v.m) |-> <<v.m[i][1], Short(v.m[i][1], v.m[i][2])>>])
          [] IsList(v) -> L([i \in 1..Len(v.e) |-> Shortened(v.e[i], n)])
          [] OTHER -> v

\* C14: with max_description_length = L, a string under a key description,
\* notes or text that is longer than L comes back as its first L characters
\* followed by '... [truncated]', and one of length at most L comes back
\* unchanged; this is the only change when no other option is set, and with
\* remove_empty a string that came back is the same one.
C14_Truncation ==
    (pc = "filtered" /\ IsInt(config.max_description_length) /\ config.journals = PyNone
       /\ config.include_fields = PyNone /\ config.exclude_fields = PyNone
       /\ config.keep_custom_fields = PyNone)
      => /\ config.remove_empty = PyBool(FALSE)
              => Val(result) = Shortened(Val(data), IntOf(config.max_description_length))
         /\ IsDict(data)
              => \A i \in 1..Len(result.m) :
                   IsStr(Get(data, result.m[i][1], PyNone))
                     => result.m[i][2] =
                          Get(Shortened(Val(data), IntOf(config.max_description_length)),
                              result.m[i][1], PyNone)

\* under the limit 3, a description of four characters was cut to three and
\* the marker
C14_Witness ==
    /\ pc = "filtered"
    /\ config.max_description_length = PyInt(3)
    /\ Val(data) = D(<<<<"description", PyStr("abcd")>>>>)
    /\ Val(result) = D(<<<<"description", PyStr("abc... [truncated]")>>>>)

\* under the limit 3, notes of three characters came back as they were
C14_WitnessShort ==
    /\ pc = "filtered"
    /\ config.max_description_length = PyInt(3)
    /\ Val(data) = D(<<<<"notes", PyStr("abc")>>>>)
    /\ Val(result) = Val(data)

\* the elements of the list whose name is in keep, in their order
NamedIn(list, keep) ==
    LET Named(field) ==
          /\ HasKey(field, "name")
          /\ \E i \in 1..Len(keep.e) : keep.e[i] = Get(field, "name", PyNone)
    IN  SelectSeq(Val(list).e, Named)

\* the custom_fields key of result is what the custom-field step alone
\* makes of it: dropped under remove_custom_fields; otherwise, under the
\* keep list, the elements it names, and dropped when it names none
CustomFieldStep ==
    LET value == Get(data, "custom_fields", PyNone)
        kept == NamedIn(value, config.keep_custom_fields)
    IN  IF config.remove_custom_fields = PyBool(TRUE) \/ kept = <<>>
        THEN ~HasKey(result, "custom_fields")
        ELSE /\ HasKey(result, "custom_fields")
             /\ Val(Get(result, "custom_fields", PyNone)) = L(kept)

\* the data is a mapping whose custom_fields is a list that remove_empty
\* does not take
HasCustomFields ==
    /\ IsDict(data)
    /\ IsList(Get(data, "custom_fields", PyNone))
    /\ Len(Get(data, "custom_fields", PyNone).e) > 0

\* C15, as stated: for a custom_fields list, under remove_custom_fields or a
\* keep_custom_fields that is any list, the custom-field step decides the
\* key, whatever include_fields and exclude_fields are.
C15_AnyKeepList ==
    (/\ pc = "filtered"
     /\ HasCustomFields
     /\ config.remove_custom_fields = PyBool(TRUE) \/ IsList(config.keep_custom_fields))
      => CustomFieldStep

\* C15: for a custom_fields list, remove_custom_fields drops the key;
\* otherwise, when keep_custom_fields is a list that is not empty, the value
\* becomes exactly the elements whose name is in that list, in their order,
\* and the key is dropped when there is none; in both cases include_fields
\* and exclude_fields have no say.
C15_CustomFieldsFirst ==
    (/\ pc = "filtered"
     /\ HasCustomFields
     /\ \/ config.remove_custom_fields = PyBool(TRUE)
        \/ IsList(config.keep_custom_fields) /\ Len(config.keep_custom_fields.e) > 0)
      => CustomFieldStep

\* include_fields does not name custom_fields, yet the two fields the keep
\* list names came back, in the order of the data
C15_Witness ==
    /\ pc = "filtered"
    /\ HasCustomFields
    /\ config.remove_custom_fields = PyBool(FALSE)
    /\ Val(config.include_fields) = L(<<PyStr("id")>>)
    /\ Val(config.keep_custom_fields) = L(<<PyStr("Contact"), PyStr("Build")>>)
    /\ Len(Get(data, "custom_fields", PyNone).e) = 2
    /\ Get(Get(data, "custom_fields", PyNone).e[1], "name", PyNone) = PyStr("Build")
    /\ Get(Get(data, "custom_fields", PyNone).e[2], "name", PyNone) = PyStr("Contact")
    /\ Val(Get(result, "custom_fields", PyNone)) = Val(Get(data, "custom_fields", PyNone))

RECURSIVE Included(_, _)
\* v with, in every mapping at every depth, only the keys that are in names
\* or are wrapper keys
Included(v, names) ==
    LET Keep(item) ==
          item[1] \in names \cup {"issue", "issues", "projects", "users", "time_entries"}
        inner(kept) == D([i \in 1..Len(kept) |-> <<kept[i][1], Included(kept[i][2], names)>>])
    IN  CASE IsDict(v) -> inner(SelectSeq(v.m, Keep))
          [] IsList(v) -> L([i \in 1..Len(v.e) |-> Included(v.e[i], names)])
          [] OTHER -> v

RECURSIVE OnlyIncluded(_, _)
\* every key of every mapping of v is in names or is a wrapper key
OnlyIncluded(v, names) ==
    CASE IsDict(v) ->
           \A i \in 1..Len(v.m) :
             /\ v.m[i][1] \in names \cup {"issue", "issues", "projects", "users", "time_entries"}
             /\ OnlyIncluded(v.m[i][2], names)
      [] IsList(v) -> \A i \in 1..Len(v.e) : OnlyIncluded(v.e[i], names)
      [] OTHER -> TRUE

\* C16: with include_fields set and no journal policy or custom field
\* option, every key of the result, at every depth, is in include_fields
\* or is a wrapper key (issue, issues, projects, users, time_entries); and
\* without remove_empty and max_array_items the result is the data with, in
\* every mapping at every depth, exactly those keys: wrapper keys are kept
\* and their contents selected with the same list, as are the mappings under
\* an included key.
C16_IncludeEveryDepth ==
    (/\ pc = "filtered"
     /\ IsList(config.include_fields) /\ Len(config.include_fields.e) > 0
     /\ config.journals = PyNone
     /\ config.keep_custom_fields = PyNone /\ config.remove_custom_fields = PyBool(FALSE)
     /\ config.max_description_length = PyNone)
      => LET names == {config.include_fields.e[i].s : i \in 1..Len(config.include_fields.e)}
         IN  /\ OnlyIncluded(result, names)
             /\ (config.remove_empty = PyBool(FALSE) /\ config.max_array_items = PyNone)
                  => Val(result) = Included(Val(data), names)

\* under the wrapper key issue, which include_fields does not name, the
\* journals and the notes were kept and the id was not; and each entry under
\* the included key journals kept its notes only
C16_Witness ==
    /\ pc = "filtered"
    /\ config.journals = PyNone
    /\ config.remove_empty = PyBool(FALSE)
    /\ Val(config.include_fields) = L(<<PyStr("journals"), PyStr("notes")>>)
    /\ HasKey(data, "issue")
    /\ Len(Get(Get(data, "issue", PyNone), "journals", PyNone).e) = 2
    /\ HasKey(Get(Get(data, "issue", PyNone), "journals", PyNone).e[1], "id")
    /\ HasKey(Get(Get(data, "issue", PyNone), "journals", PyNone).e[2], "notes")
    /\ HasKey(result, "issue")
    /\ ~HasKey(Get(result, "issue", PyNone), "id")
    /\ HasKey(Get(result, "issue", PyNone), "notes")
    /\ Val(Get(Get(result, "issue", PyNone), "journals", PyNone).e[2])
         = D(<<<<"notes", Get(Get(Get(data, "issue", PyNone), "journals", PyNone).e[2],
                              "notes", PyNone)>>>>)

\* ------------------------------------------- properties of filter_journals

\* the notes of the entry are a string, not blank, that the classifier accepts
Accepted(entry) ==
    /\ IsDict(entry)
    /\ HasKey(entry, "notes")
    /\ IsStr(Get(entry, "notes", PyNone))
    /\ ~IsBlank(Get(entry, "notes", PyNone).s)
    /\ contains_code_review_patterns(Get(entry, "notes", PyNone))

\* the entry without its details key, every other key as it is
WithoutDetails(entry) ==
    LET NotDetails(item) == item[1] # "details" IN D(SelectSeq(Val(entry).m, NotDetails))

RECURSIVE Retained(_, _)
\* the accepted entries of e from i on, in their order, without their details
Retained(e, i) ==
    IF i > Len(e) THEN <<>>
    ELSE (IF Accepted(e[i]) THEN <<WithoutDetails(e[i])>> ELSE <<>>) \o Retained(e, i + 1)

\* C9: with code_review_only = true, filter_journals returns exactly the
\* entries whose notes are a non-blank string the classifier accepts, in
\* their original order, each a copy of the input entry (an object of its
\* own) without its details key and with every other key unchanged.
C9_FilterJournals ==
    (pc = "filtered" /\ config = JournalFilterConfig(PyBool(TRUE)))
      => /\ Val(result) = L(Retained(journals.e, 1))
         /\ \A i \in 1..Len(result.e) : result.e[i].o \notin Objects(journals)

\* two accepted entries came back in their order, the first without the
\* details it had
C9_Witness ==
    /\ pc = "filtered"
    /\ config = JournalFilterConfig(PyBool(TRUE))
    /\ Len(journals.e) = 2
    /\ IsDict(journals.e[1]) /\ IsDict(journals.e[2])
    /\ Val(Get(journals.e[1], "notes", PyNone)) = PyStr(GerritNote)
    /\ HasKey(journals.e[1], "details")
    /\ Val(Get(journals.e[2], "notes", PyNone)) = PyStr(ReviewNote)
    /\ Len(result.e) = 2
    /\ Val(result.e[1]) = D(<<<<"id", PyInt(1)>>, <<"notes", PyStr(GerritNote)>>>>)
    /\ Val(result.e[2]) = Val(journals.e[2])

\* the notes of the entry are absent, null, no string, or blank
NoNotes(entry) ==
    \/ ~HasKey(entry, "notes")
    \/ ~IsStr(Get(entry, "notes", PyNone))
    \/ IsBlank(Get(entry, "notes", PyNone).s)

\* C10: with code_review_only = true, filter_journals retains no entry whose
\* notes are absent, null, no string or blank, whatever its details hold:
\* as many entries come back as the input has entries with notes, and each
\* of them has notes.
C10_NotesOnly ==
    (pc = "filtered" /\ config = JournalFilterConfig(PyBool(TRUE)))
      => /\ \A i \in 1..Len(result.e) : ~NoNotes(result.e[i])
         /\ Len(result.e) <=
              Cardinality({i \in 1..Len(journals.e) :
                             IsDict(journals.e[i]) /\ ~NoNotes(journals.e[i])})

\* an entry without notes whose details hold a change of the custom field
\* Review Status, which is_code_review_entry accepts, was not retained,
\* while the entry next to it was
C10_Witness ==
    /\ pc = "filtered"
    /\ config = JournalFilterConfig(PyBool(TRUE))
    /\ Len(journals.e) = 2
    /\ Val(journals.e[1]) = D(<<<<"id", PyInt(3)>>, <<"details", ReviewDetails>>>>)
    /\ is_code_review_entry(journals.e[1])
    /\ Len(result.e) = 1
    /\ Get(result.e[1], "id", PyNone) # PyInt(3)

\* the processing of the entry fails: it is null or no mapping, or its notes
\* are missing or no string
FailingEntry(entry) ==
    \/ ~IsDict(entry)
    \/ ~HasKey(entry, "notes")
    \/ ~IsStr(Get(entry, "notes", PyNone))

\* the list without its failing entries
WithoutFailing(list) ==
    PyList(list.o, SelectSeq(list.e, LAMBDA entry : ~FailingEntry(entry)))

\* C20: with code_review_only = true, filter_journals raises nothing; an
\* entry whose processing fails (null, no mapping, notes missing or no
\* string) is skipped and every later entry is still processed: the output
\* equals the output for the list without the failing entries, and the
\* classifier is handed the same notes as for that list.
C20_ErrorIsolation ==
    (pc = "filtered" /\ config = JournalFilterConfig(PyBool(TRUE)))
      => /\ ~IsRaise(result)
         /\ IsList(result)
         /\ Val(result) = Val(filter_journals(WithoutFailing(journals), config))
         /\ classified = journals_classified(WithoutFailing(journals), config)
         /\ \A i \in 1..Len(result.e) : ~FailingEntry(result.e[i])

\* a null entry ahead of an entry with the notes of a Gerrit change: the
\* second entry was classified and came back alone
C20_Witness ==
    /\ pc = "filtered"
    /\ config = JournalFilterConfig(PyBool(TRUE))
    /\ Len(journals.e) = 2
    /\ journals.e[1] = PyNone
    /\ FailingEntry(journals.e[1])
    /\ IsDict(journals.e[2])
    /\ Val(Get(journals.e[2], "notes", PyNone)) = PyStr(GerritNote)
    /\ classified = <<GerritNote>>
    /\ Len(result.e) = 1
    /\ Get(result.e[1], "id", PyNone) = PyInt(1)

\* an entry that is no mapping ahead of an entry the classifier accepts
C20_WitnessNoMapping ==
    /\ pc = "filtered"
    /\ config = JournalFilterConfig(PyBool(TRUE))
    /\ Len(journals.e) = 2
    /\ IsStr(journals.e[1])
    /\ Len(result.e) = 1
\* C23: the structure filter_data returns shares no list or mapping with
\* the tree it was given, so that a write to any part of the result leaves
\* the tree as it was.
C23_IndependentResult ==
    pc = "filtered" => Objects(result) \cap Objects(data) = {}

\* the length the journal policy alone gives the journals list: that of
\* the processor's output under a policy, that of the list itself without
JournalsLength(list, policy) ==
    IF Truthy(policy) THEN Len(filter_journals(list, policy).e) ELSE Len(list.e)

\* C24: with max_array_items = N, with or without a journal policy, the
\* journals list of the output is not cut to N: it has the length the
\* journal policy alone gives it.
C24_JournalsUnbounded ==
    (/\ pc = "filtered"
     /\ IsInt(config.max_array_items)
     /\ IsDict(data) /\ IsDict(result)
     /\ IsList(Get(data, "journals", PyNone))
     /\ HasKey(result, "journals"))
      => Len(Get(result, "journals", PyNone).e)
           = JournalsLength(Get(data, "journals", PyNone), config.journals)

RECURSIVE TextsBounded(_, _, _)
\* every string under a key description, notes or text of v has at most n
\* characters and the marker; with exempt, the lists under the keys in
\* exempt are not looked into
TextsBounded(v, n, exempt) ==
    LET Bounded(key, x) ==
          IF key \in exempt /\ IsList(x) THEN TRUE
          ELSE IF key \in LongTextKeys /\ IsStr(x)
          THEN Len(x.s) <= n + Len(TruncationMarker)
          ELSE TextsBounded(x, n, exempt)
    IN  CASE IsDict(v) -> \A i \in 1..Len(v.m) : Bounded(v.m[i][1], v.m[i][2])
          [] IsList(v) -> \A i \in 1..Len(v.e) : TextsBounded(v.e[i], n, exempt)
          [] OTHER -> TRUE

\* the keys whose lists filter_dict stores without filtering their members:
\* journals under a journal policy, custom_fields under keep_custom_fields
StoredUnfiltered(c) ==
    (IF Truthy(c.journals) THEN {"journals"} ELSE {})
      \cup (IF Truthy(c.keep_custom_fields) THEN {"custom_fields"} ELSE {})

\* C25 as stated: with max_description_length = L, every string under a key
\* description, notes or text anywhere in the output, inside retained
\* journal entries and kept custom-field elements too, has at most L
\* characters and the marker.
C25_EveryDepth ==
    (pc = "filtered" /\ IsInt(config.max_description_length)
       /\ Truthy(config.max_description_length))
      => TextsBounded(result, IntOf(config.max_description_length), {})

\* C25: with max_description_length = L, every string under a key
\* description, notes or text at any depth of the output has at most L
\* characters and the marker, except inside the journals list when a journal
\* policy is configured and inside the custom_fields list when
\* keep_custom_fields is set: the members of these lists are stored as the
\* processor and the custom-field selection return them.
C25_BoundedOutsidePolicies ==
    (pc = "filtered" /\ IsInt(config.max_description_length)
       /\ Truthy(config.max_description_length))
      => TextsBounded(result, IntOf(config.max_description_length),
                      StoredUnfiltered(config))

\* without a journal policy, the notes of a journal entry two levels below
\* the wrapper key issue, longer than the limit, came back as their first
\* characters and the marker
C25_Witness ==
    /\ pc = "filtered"
    /\ config.max_description_length = PyInt(MaxLength)
    /\ config.journals = PyNone
    /\ IsDict(data) /\ IsDict(result)
    /\ HasKey(data, "issue") /\ HasKey(result, "issue")
    /\ IsList(Get(Get(data, "issue", PyNone), "journals", PyNone))
    /\ Len(Get(Get(data, "issue", PyNone), "journals", PyNone).e) >= 1
    /\ Get(Get(Get(data, "issue", PyNone), "journals", PyNone).e[1], "notes", PyNone)
         = PyStr(GerritNote)
    /\ Len(GerritNote) > MaxLength
    /\ Get(Get(Get(result, "issue", PyNone), "journals", PyNone).e[1], "notes", PyNone)
         = PyStr(SubSeq(GerritNote, 1, MaxLength) \o TruncationMarker)

\* C29: should_include_journal returns false whenever the detector raises
\* an exception of any kind, a generic Exception included; no exception
\* reaches its caller.
C29_NeverPropagates ==
    pc = "should_include_journal" =>
      /\ ~IsRaise(result)
      /\ IsRaise(given.side_effect) => result = PyBool(FALSE)

RECURSIVE Reduced(_, _, _, _)
RECURSIVE Embeds(_, _, _, _, _)
\* the elements of out from i on are reduced forms of distinct elements of
\* in from j on, in their order
Embeds(out, in, i, j, n) ==
    IF i > Len(out) THEN TRUE
    ELSE IF j > Len(in) THEN FALSE
    ELSE IF Reduced(out[i], in[j], n, FALSE) THEN Embeds(out, in, i + 1, j + 1, n)
    ELSE Embeds(out, in, i, j + 1, n)

\* out is in with keys and elements removed and texts shortened: a mapping
\* with keys of in only, a list of elements of in in their order, a string
\* under a long-text key cut to n characters and the marker, or in itself
Reduced(out, in, n, long) ==
    CASE IsDict(out) /\ IsDict(in) ->
           \A i \in 1..Len(out.m) :
             /\ HasKey(in, out.m[i][1])
             /\ Reduced(out.m[i][2], Get(in, out.m[i][1], PyNone), n,
                        out.m[i][1] \in LongTextKeys)
      [] IsList(out) /\ IsList(in) -> Embeds(out.e, in.e, 1, 1, n)
      [] IsStr(out) /\ IsStr(in) ->
           \/ out = in
           \/ /\ long /\ n > 0 /\ Len(in.s) > n
              /\ out.s = SubSeq(in.s, 1, n) \o TruncationMarker
      [] OTHER -> out = in

\* C30: filtering only removes or shortens. Each key of a mapping of the
\* output is a key of the mapping of the input it comes from, the elements
\* of each list of the output come from distinct elements of the list of the
\* input in their order, and the only value that differs from the input's
\* is a long text replaced by its truncated form; with the empty
\* configuration the output equals the input.
C30_OnlyRemovesOrShortens ==
    pc = "filtered" =>
      /\ ~IsRaise(result)
      /\ Reduced(Val(result), Val(data),
                 IF IsInt(config.max_description_length)
                 THEN IntOf(config.max_description_length) ELSE 0,
                 FALSE)
      /\ config = FilterConfig => Val(result) = Val(data)

\* under the journal policy, of a rejected entry followed by an accepted
\* one the second came back alone, without its details; the id next to the
\* journals stayed
C30_Witness ==
    /\ pc = "filtered"
    /\ config.journals = JournalFilterConfig(PyBool(TRUE))
    /\ config.include_fields = PyNone /\ config.exclude_fields = PyNone
    /\ IsDict(data) /\ IsDict(result)
    /\ IsList(Get(data, "journals", PyNone))
    /\ Len(Get(data, "journals", PyNone).e) = 2
    /\ Get(Get(data, "journals", PyNone).e[1], "id", PyNone) = PyInt(2)
    /\ Get(Get(data, "journals", PyNone).e[2], "id", PyNone) = PyInt(1)
    /\ Val(result)
         = D(<<<<"id", PyInt(1)>>,
               <<"journals", L(<<D(<<<<"id", PyInt(1)>>,
                                     <<"notes", PyStr(GerritNote)>>>>)>>)>>>>)

\* with the empty configuration a tree with journals came back equal
C30_WitnessEmpty ==
    /\ pc = "filtered"
    /\ config = FilterConfig
    /\ IsDict(data) /\ HasKey(data, "issue")
    /\ Val(result) = Val(data)
    /\ result.o # data.o

\* --------------------------------------------- properties of the classifier

\* some pattern of the group matches the text
GroupPresent(patterns, text) == \E i \in 1..Len(patterns) : re_search(patterns[i], text)

\* the number of the four groups secondary, url, commit, textile that have a
\* matching pattern
PresentGroups(text) ==
    Cardinality({g \in 1..4 :
        GroupPresent(<<SECONDARY_PATTERNS, URL_PATTERNS, COMMIT_PATTERNS,
                       TEXTILE_PATTERNS>>[g], text)})

C17_WitnessTwoGroups ==
    /\ pc = "is_gerrit_entry"
    /\ data = PyStr("see /r/c/12345 Gerrit change and GERRIT REVIEW")
    /\ ~GroupPresent(PRIMARY_PATTERNS, data.s)
    /\ result = PyBool(TRUE)

\* the keywords of the fallback by category, the inflected forms of a word
\* being one category
KeywordCategories ==
    <<{"review", "reviewed", "reviewing"}, {"approved", "approve", "approval"},
      {"rejected", "reject", "rejection"}, {"commit", "committed", "commits"},
      {"merge", "merged", "merging"}, {"pull request"}, {"PR"}, {"code review"},
      {"peer review"}>>

\* the number of categories with a keyword that matches the text
MatchingCategories(text) ==
    Cardinality({c \in 1..Len(KeywordCategories) :
                   \E keyword \in KeywordCategories[c] : keyword_search(keyword, text)})

\* C18: when the primary and the cross-group rule fail (and the text has no
\* Gerrit textile formatting), contains_code_review_patterns is true exactly
\* when keywords of at least two distinct categories match; inflected forms
\* or repetitions of one category count as one.
C18_DistinctCategories ==
    (/\ pc = "contains_code_review_patterns"
     /\ IsStr(data) /\ data.s # ""
     /\ ~is_gerrit_entry(data)
     /\ ~has_textile_gerrit_formatting(data))
      => result = PyBool(MatchingCategories(data.s) >= 2)

\* C26: contains_code_review_patterns is false for every text without a
\* primary match, with fewer than two of the groups secondary, url, commit
\* and textile present, and with keywords of fewer than two categories: no
\* single signal, such as one bold span containing 'change' or one textile
\* link to a gerrit host, classifies a text.
C26_NoSingleSignal ==
    (/\ pc = "contains_code_review_patterns"
     /\ IsStr(data)
     /\ ~GroupPresent(PRIMARY_PATTERNS, data.s)
     /\ PresentGroups(data.s) < 2
     /\ MatchingCategories(data.s) < 2)
      => result = PyBool(FALSE)

\* the number of patterns of the four groups secondary, url, commit and
\* textile that match the text
NonPrimaryMatches(text) ==
    pattern_matches(SECONDARY_PATTERNS, text) + pattern_matches(URL_PATTERNS, text)
      + pattern_matches(COMMIT_PATTERNS, text) + pattern_matches(TEXTILE_PATTERNS, text)

C27_WitnessUrl ==
    /\ pc = "is_gerrit_entry"
    /\ data = PyStr("http://gerrit.example.com/r/c/12345")
    /\ pattern_matches(URL_PATTERNS, data.s) = 2
    /\ PresentGroups(data.s) = 1
    /\ result = PyBool(FALSE)

\* ------------------------------------------ properties of concurrent calls

\* what call c returns when it runs alone
Alone(c) == apply_response_filter(calls[c].response, calls[c].mcp_filter).ret

\* the lists and mappings a call was handed
Arguments(c) == Objects(calls[c].response) \cup Objects(calls[c].mcp_filter)

\* C21: when two calls of apply_response_filter on different envelopes are
\* interleaved in any order, each returns what it returns when run alone,
\* no call writes to an object of the other call's envelope or options, and
\* the pattern tables stay as they are.
C21_NoInterference ==
    pc = "concurrent" =>
      /\ tables = PatternTables
      /\ \A c \in Calls :
           /\ calls[c].pc = "returned" => calls[c].result = Alone(c)
           /\ \A d \in Calls \ {c} : calls[c].written \cap Arguments(d) = {}

\* both calls went down the filtered path on different bodies, the second
\* call copying its envelope while the first was between its copy and its
\* filtering, and each returned its own filtered body
C21_Witness ==
    /\ pc = "concurrent"
    /\ \A c \in Calls : calls[c].pc = "returned" /\ Marked(calls[c].result)
    /\ Val(BodyOf(calls[1].response)) = IssueBody
    /\ Val(BodyOf(calls[2].response)) = IssuesBody
    /\ \A c \in Calls : calls[c].written # {}
    /\ Val(BodyOf(calls[1].result)) # Val(BodyOf(calls[1].response))
    /\ Val(BodyOf(calls[2].result)) # Val(BodyOf(calls[2].response))
    /\ calls[1].result = Alone(1) /\ calls[2].result = Alone(2)

====
